---- MODULE Spec2Model ----
(***************************************************************************)
(* Model of the SQL-to-ER-diagram pipeline of the extension:               *)
(*   detectDatabase, SQLParser.parse (with applyAlterFksFromSql),          *)
(*   parseRelationshipFile and generateMermaidERD.                         *)
(*                                                                         *)
(* A JavaScript string is modelled as a sequence of one-character strings, *)
(* so that toUpperCase, includes, replace, split and the regular           *)
(* expressions are computed character by character.  Characters outside    *)
(* ASCII are named: "EMDASH", "RARROW", "LSAQUO", "RSAQUO", and so is the  *)
(* backtick: "BACKTICK".  The newline is "\n".                             *)
(***************************************************************************)
EXTENDS Naturals, Sequences, FiniteSets, TLC

VARIABLES
    pc,         \* position of the running operation
    sql,        \* detectDatabase: the SQL text under inspection
    dialect,    \* detectDatabase: the dialect returned (also the last one logged by parse)
    content,    \* parseRelationshipFile: the annotation text
    relations,  \* the explicit relations handed to generateMermaidERD
    files,      \* SQLParser.parse: fileContents
    fi,         \* SQLParser.parse: index of the next file of the forEach
    tables,     \* SQLParser.parse: the accumulated tables / generateMermaidERD: schemas
    erd,        \* generateMermaidERD: the returned string
    src,        \* how the input text was put together (read by the properties only)
    hist        \* observations of earlier steps (read by the properties only)

vars == <<pc, sql, dialect, content, relations, files, fi, tables, erd, src, hist>>

----------------------------------------------------------------------------
(* Strings *)

LowerAlphabet == <<"a","b","c","d","e","f","g","h","i","j","k","l","m",
                   "n","o","p","q","r","s","t","u","v","w","x","y","z">>
UpperAlphabet == <<"A","B","C","D","E","F","G","H","I","J","K","L","M",
                   "N","O","P","Q","R","S","T","U","V","W","X","Y","Z">>

UpperChar(c) ==
    IF \E i \in 1..26 : LowerAlphabet[i] = c
    THEN UpperAlphabet[CHOOSE i \in 1..26 : LowerAlphabet[i] = c]
    ELSE c

LowerChar(c) ==
    IF \E i \in 1..26 : UpperAlphabet[i] = c
    THEN LowerAlphabet[CHOOSE i \in 1..26 : UpperAlphabet[i] = c]
    ELSE c

toUpperCase(s) == [i \in 1..Len(s) |-> UpperChar(s[i])]
toLowerCase(s) == [i \in 1..Len(s) |-> LowerChar(s[i])]

\* String.prototype.startsWith(pat, from-1): pat occurs in s at position i
OccursAt(s, pat, i) ==
    /\ i >= 1
    /\ i + Len(pat) - 1 <= Len(s)
    /\ \A j \in 1..Len(pat) : s[i + j - 1] = pat[j]

\* String.prototype.includes
includes(s, pat) == \E i \in 1..(Len(s) + 1) : OccursAt(s, pat, i)

RECURSIVE Concat(_)
Concat(ss) == IF ss = <<>> THEN <<>> ELSE Head(ss) \o Concat(Tail(ss))

\* all sequences over S of length at most n
SeqsUpTo(S, n) == UNION {[1..k -> S] : k \in 0..n}

----------------------------------------------------------------------------
(* detectDatabase *)

SIG_SERIAL         == <<"S","E","R","I","A","L">>
SIG_BYTEA          == <<"B","Y","T","E","A">>
SIG_CAST           == <<":",":">>
SIG_AUTO_INCREMENT == <<"A","U","T","O","_","I","N","C","R","E","M","E","N","T">>
SIG_ENGINE         == <<"E","N","G","I","N","E","=">>
SIG_UNSIGNED       == <<"U","N","S","I","G","N","E","D">>
SIG_AUTOINCREMENT  == <<"A","U","T","O","I","N","C","R","E","M","E","N","T">>
SIG_WITHOUT_ROWID  == <<"W","I","T","H","O","U","T"," ","R","O","W","I","D">>

\* the bug a reordering of the checks would be: MySQL signatures tested first
detectDatabase_mysqlFirst(s) ==
    LET upper == toUpperCase(s) IN
    IF includes(upper, SIG_AUTO_INCREMENT) \/ includes(upper, SIG_ENGINE)
          \/ includes(upper, SIG_UNSIGNED)
    THEN "MySQL"
    ELSE IF includes(upper, SIG_SERIAL) \/ includes(upper, SIG_BYTEA)
          \/ includes(upper, SIG_CAST)
    THEN "Postgres"
    ELSE IF includes(upper, SIG_AUTOINCREMENT) \/ includes(upper, SIG_WITHOUT_ROWID)
    THEN "SQLite"
    ELSE "Postgres"

detectDatabase(s) ==
    LET upper == toUpperCase(s) IN
    IF includes(upper, SIG_SERIAL) \/ includes(upper, SIG_BYTEA)
          \/ includes(upper, SIG_CAST)
    THEN "Postgres"
    ELSE IF includes(upper, SIG_AUTO_INCREMENT) \/ includes(upper, SIG_ENGINE)
          \/ includes(upper, SIG_UNSIGNED)
    THEN "MySQL"
    ELSE IF includes(upper, SIG_AUTOINCREMENT) \/ includes(upper, SIG_WITHOUT_ROWID)
    THEN "SQLite"
    ELSE "Postgres"

----------------------------------------------------------------------------
(* Character classes of the regular expressions *)

Digits == {"0","1","2","3","4","5","6","7","8","9"}
Letters == {LowerAlphabet[i] : i \in 1..26} \cup {UpperAlphabet[i] : i \in 1..26}

\* \w
IsWordChar(c) == c \in Letters \cup Digits \cup {"_"}
\* line terminators, which "." does not match
IsLineTerminator(c) == c \in {"\n", "\r"}
\* \s
IsSpace(c) == c \in {" ", "\t", "\n", "\r", "\f"}

\* greedy \s* from position p: the first position at or after p holding no white space
RECURSIVE SkipSpaces(_, _)
SkipSpaces(s, p) ==
    IF p <= Len(s) /\ IsSpace(s[p]) THEN SkipSpaces(s, p + 1) ELSE p

\* greedy \w* from position p
RECURSIVE SkipWord(_, _)
SkipWord(s, p) ==
    IF p <= Len(s) /\ IsWordChar(s[p]) THEN SkipWord(s, p + 1) ELSE p

\* String.prototype.trim
RECURSIVE trimEnd(_)
trimEnd(s) ==
    IF Len(s) > 0 /\ IsSpace(s[Len(s)]) THEN trimEnd(SubSeq(s, 1, Len(s) - 1)) ELSE s

trim(s) == trimEnd(SubSeq(s, SkipSpaces(s, 1), Len(s)))

\* String.prototype.split(sep) for a one-character separator
RECURSIVE split(_, _)
split(s, sep) ==
    IF \E i \in 1..Len(s) : s[i] = sep
    THEN LET i == CHOOSE k \in 1..Len(s) : s[k] = sep /\ \A j \in 1..(k - 1) : s[j] # sep
         IN <<SubSeq(s, 1, i - 1)>> \o split(SubSeq(s, i + 1, Len(s)), sep)
    ELSE <<s>>

----------------------------------------------------------------------------
(* parseRelationshipFile *)

REF == <<"R","e","f">>

\* line.match(/^Ref\s+(\w+):\s+(\w+)\.(\w+)\s*>\s*(\w+)\.(\w+)\s*\/\/\s*(.+)$/):
\* <<>> when the line does not match, else <<the six groups>>.
\* a1..a6 are the starts of the groups, e1..e5 the positions after them.
RefMatch(line) ==
    LET a1 == SkipSpaces(line, 4)
        e1 == SkipWord(line, a1)
        a2 == SkipSpaces(line, e1 + 1)
        e2 == SkipWord(line, a2)
        a3 == e2 + 1
        e3 == SkipWord(line, a3)
        gt == SkipSpaces(line, e3)
        a4 == SkipSpaces(line, gt + 1)
        e4 == SkipWord(line, a4)
        a5 == e4 + 1
        e5 == SkipWord(line, a5)
        sl == SkipSpaces(line, e5)
        \* \s*(.+)$ : greedy white space, giving one character back when nothing is left
        r  == SkipSpaces(line, sl + 2)
        a6 == IF r <= Len(line) THEN r ELSE Len(line)
        ok == /\ OccursAt(line, REF, 1)
              /\ a1 > 4 /\ e1 > a1
              /\ e1 <= Len(line) /\ line[e1] = ":"
              /\ a2 > e1 + 1 /\ e2 > a2
              /\ e2 <= Len(line) /\ line[e2] = "."
              /\ e3 > a3
              /\ gt <= Len(line) /\ line[gt] = ">"
              /\ e4 > a4
              /\ e4 <= Len(line) /\ line[e4] = "."
              /\ e5 > a5
              /\ OccursAt(line, <<"/", "/">>, sl)
              /\ a6 >= sl + 2
              /\ \A k \in a6..Len(line) : ~IsLineTerminator(line[k])
    IN IF ok
       THEN << <<SubSeq(line, a1, e1 - 1), SubSeq(line, a2, e2 - 1),
                 SubSeq(line, a3, e3 - 1), SubSeq(line, a4, e4 - 1),
                 SubSeq(line, a5, e5 - 1), SubSeq(line, a6, Len(line))>> >>
       ELSE <<>>

\* the body of lines.forEach: the relations a line pushes
LineRelations(line) ==
    LET match == RefMatch(line) IN
    IF match # <<>>
    THEN <<[name         |-> match[1][1],
            sourceTable  |-> match[1][2],
            sourceColumn |-> match[1][3],
            targetTable  |-> match[1][4],
            targetColumn |-> match[1][5],
            type         |-> trim(match[1][6])]>>
    ELSE <<>>

RECURSIVE ForEachLine(_)
ForEachLine(lines) ==
    IF lines = <<>> THEN <<>>
    ELSE LineRelations(Head(lines)) \o ForEachLine(Tail(lines))

\* the bug of giving up at the first line that does not match
RECURSIVE ForEachLine_stopAtMismatch(_)
ForEachLine_stopAtMismatch(lines) ==
    IF lines = <<>> \/ RefMatch(Head(lines)) = <<>> THEN <<>>
    ELSE LineRelations(Head(lines)) \o ForEachLine_stopAtMismatch(Tail(lines))

parseRelationshipFile_stopAtMismatch(text) == ForEachLine_stopAtMismatch(split(text, "\n"))

parseRelationshipFile(text) == ForEachLine(split(text, "\n"))

----------------------------------------------------------------------------
(* The table model: TableColumn, TableSchema.  An optional flag that was   *)
(* never set is FALSE; an unset "references" is the empty sequence, a set  *)
(* one is <<[table |-> ..., column |-> ...]>>.                             *)

Column(n, t, pk, fk, uq, ref) ==
    [name |-> n, type |-> t, isPrimary |-> pk, isForeign |-> fk, isUnique |-> uq,
     references |-> ref]

Ref(t, c) == <<[table |-> t, column |-> c]>>

Table(n, cols) == [name |-> n, columns |-> cols]

----------------------------------------------------------------------------
(* generateMermaidERD *)

NL == <<"\n">>
SP == <<" ">>

ARROW_ONE_TO_MANY == <<"|","|","-","-","o","{">>
ARROW_ONE_TO_ONE  == <<"|","|","-","-","|","|">>

PLACEHOLDER ==
    <<"e","r","D","i","a","g","r","a","m","\n">>
    \o <<" "," "," "," "," "," ","E","M","P","T","Y"," ","{","\n">>
    \o <<" "," "," "," "," "," "," "," ","s","t","r","i","n","g"," ","n","o","t","e"," ">>
    \o <<"\"","N","o"," ","t","a","b","l","e","s"," ","f","o","u","n","d","\"","\n">>
    \o <<" "," "," "," "," "," ","}">>

\* s.replace(/xy/g, rep) for a two-character pattern, scanning left to right
RECURSIVE replacePair(_, _, _)
replacePair(s, pat, rep) ==
    IF Len(s) = 0 THEN <<>>
    ELSE IF OccursAt(s, pat, 1)
    THEN rep \o replacePair(SubSeq(s, 3, Len(s)), pat, rep)
    ELSE <<Head(s)>> \o replacePair(Tail(s), pat, rep)

\* s.replace(/[set]/g, "")
RECURSIVE removeChars(_, _)
removeChars(s, set) ==
    IF Len(s) = 0 THEN <<>>
    ELSE IF Head(s) \in set THEN removeChars(Tail(s), set)
    ELSE <<Head(s)>> \o removeChars(Tail(s), set)

\* s.replace(/c/g, rep) for one character
replaceChar(s, c, rep) == [i \in 1..Len(s) |-> IF s[i] = c THEN rep ELSE s[i]]

safeLabel(s) ==
    LET s1 == replacePair(s, <<"-","-">>, <<"EMDASH">>)
        s2 == removeChars(s1, {"{", "}", "[", "]", "|"})
        s3 == replacePair(s2, <<"-",">">>, <<"RARROW">>)
        s4 == replaceChar(s3, "<", "LSAQUO")
    IN replaceChar(s4, ">", "RSAQUO")

\* the older loop, which emitted a block for every element of schemas
Dedupe_none(schemas, keys) == schemas

\* --- 1) de-dupe entities by name: the values of tableMap, in insertion order
RECURSIVE Dedupe(_, _)
Dedupe(schemas, keys) ==
    IF schemas = <<>> THEN <<>>
    ELSE LET t   == Head(schemas)
             key == toUpperCase(trim(t.name))
         IN IF key \in keys
            THEN Dedupe(Tail(schemas), keys)
            ELSE <<t>> \o Dedupe(Tail(schemas), keys \cup {key})

MANY == <<"m","a","n","y">>
PK == <<"P","K">>
FK == <<"F","K">>
UNKNOWN == <<"U","N","K","N","O","W","N">>
REL == <<"r","e","l">>

\* the badges of one column line
\* the older badge code, which pushed both
Badges_both(col) ==
    (IF col.isPrimary THEN <<PK>> ELSE <<>>) \o (IF col.isForeign THEN <<FK>> ELSE <<>>)

Badges(col) ==
    IF col.isPrimary THEN <<PK>>
    ELSE IF col.isForeign THEN <<FK>>
    ELSE <<>>

\* badges.join(" ")
RECURSIVE join(_, _)
join(parts, sep) ==
    IF parts = <<>> THEN <<>>
    ELSE IF Len(parts) = 1 THEN parts[1]
    ELSE parts[1] \o sep \o join(Tail(parts), sep)

ColumnLine(col) ==
    LET type   == toUpperCase(IF col.type = <<>> THEN UNKNOWN ELSE col.type)
        badges == Badges(col)
    IN <<" "," "," "," ">> \o type \o SP \o col.name
       \o (IF Len(badges) > 0 THEN SP \o join(badges, SP) ELSE <<>>) \o NL

RECURSIVE ColumnLines(_)
ColumnLines(cols) ==
    IF cols = <<>> THEN <<>> ELSE ColumnLine(Head(cols)) \o ColumnLines(Tail(cols))

EntityBlock(table) ==
    <<" "," ">> \o toUpperCase(table.name) \o <<" ","{","\n">>
    \o ColumnLines(table.columns)
    \o <<" "," ","}","\n">>

RECURSIVE EntityBlocks(_)
EntityBlocks(ts) ==
    IF ts = <<>> THEN <<>> ELSE EntityBlock(Head(ts)) \o EntityBlocks(Tail(ts))

\* the arrow of an explicit relation
\* the older test, which compared the cardinality text as written
RelationArrow_caseSensitive(rel) ==
    IF includes(rel.type, MANY) THEN ARROW_ONE_TO_MANY ELSE ARROW_ONE_TO_ONE

RelationArrow(rel) ==
    IF includes(toLowerCase(rel.type), MANY) THEN ARROW_ONE_TO_MANY ELSE ARROW_ONE_TO_ONE

RelationLabel(rel) ==
    safeLabel(IF rel.name # <<>> THEN rel.name
              ELSE IF rel.type # <<>> THEN rel.type
              ELSE REL)

RelationLine(rel) ==
    <<" "," ">> \o toUpperCase(rel.targetTable) \o SP \o RelationArrow(rel) \o SP
    \o toUpperCase(rel.sourceTable) \o <<" ",":"," ">> \o RelationLabel(rel) \o NL

RECURSIVE RelationLines(_)
RelationLines(rels) ==
    IF rels = <<>> THEN <<>> ELSE RelationLine(Head(rels)) \o RelationLines(Tail(rels))

\* table.columns.filter(c => c.isPrimary)
PkCols(table) == SelectSeq(table.columns, LAMBDA c : c.isPrimary)

\* the older rule: one-to-one for any primary or unique foreign key
IsOneToOne_anyPrimary(table, col) == col.isUnique \/ col.isPrimary

IsOneToOne(table, col) ==
    col.isUnique \/ (col.isPrimary /\ Len(PkCols(table)) = 1)

FkLine(table, col) ==
    LET arrow  == IF IsOneToOne(table, col) THEN ARROW_ONE_TO_ONE ELSE ARROW_ONE_TO_MANY
        parent == toUpperCase(col.references[1].table)
        child  == toUpperCase(table.name)
        label  == col.name \o <<"RARROW">> \o col.references[1].column
    IN <<" "," ">> \o parent \o SP \o arrow \o SP \o child \o <<" ",":"," ">> \o label \o NL

RECURSIVE FkLinesOfColumns(_, _)
FkLinesOfColumns(table, cols) ==
    IF cols = <<>> THEN <<>>
    ELSE (IF Head(cols).isForeign /\ Head(cols).references # <<>>
          THEN FkLine(table, Head(cols)) ELSE <<>>)
         \o FkLinesOfColumns(table, Tail(cols))

RECURSIVE FkLines(_)
FkLines(schemas) ==
    IF schemas = <<>> THEN <<>>
    ELSE FkLinesOfColumns(Head(schemas), Head(schemas).columns) \o FkLines(Tail(schemas))

ERD_HEADER == <<"e","r","D","i","a","g","r","a","m","\n">>

\* a renderer that would derive the foreign-key lines from the de-duplicated tables
generateMermaidERD_fkFromDeduped(schemas, rels) ==
    IF Len(schemas) = 0 THEN PLACEHOLDER
    ELSE ERD_HEADER
         \o EntityBlocks(Dedupe(schemas, {}))
         \o RelationLines(rels)
         \o FkLines(Dedupe(schemas, {}))

\* the bug of rendering an empty table list like any other
generateMermaidERD_noPlaceholder(schemas, rels) ==
    ERD_HEADER \o EntityBlocks(Dedupe(schemas, {})) \o RelationLines(rels) \o FkLines(schemas)

generateMermaidERD(schemas, rels) ==
    IF Len(schemas) = 0 THEN PLACEHOLDER
    ELSE ERD_HEADER
         \o EntityBlocks(Dedupe(schemas, {}))
         \o RelationLines(rels)
         \o FkLines(schemas)

----------------------------------------------------------------------------
(* Bounds of the inputs *)

MaxFrags  == 3   \* fragments an SQL text of the detector runs is put together from
MaxLines  == 3   \* lines of an annotation text
MaxTables == 2   \* tables handed to a renderer run
MaxRels   == 2   \* explicit relations handed to a renderer run

----------------------------------------------------------------------------
(* Inputs of the detector runs: texts put together from fragments, so that *)
(* a signature can also arise across a fragment boundary.                  *)

FragPool ==
    { <<"s","e","r","i","a","l">>,
      <<"B","y","t","e","a">>,
      <<":">>,
      <<"A","u","t","o","_","I","n","c","r","e","m","e","n","t">>,
      <<"a","u","t","o">>,
      <<"_">>,
      <<"i","n","c","r","e","m","e","n","t">>,
      <<"E","n","g","i","n","e","=">>,
      <<"u","n","s","i","g","n","e","d">>,
      <<"w","i","t","h","o","u","t"," ","r","o","w","i","d">>,
      <<"x"," ">> }

SqlTexts == {Concat(fs) : fs \in SeqsUpTo(FragPool, MaxFrags)}

----------------------------------------------------------------------------
(* Inputs of the annotation runs: lines written out from a description.    *)
(* A well-formed line is written from its six fields in one of three       *)
(* layouts; the other lines are ones the grammar does not accept.          *)

W_fk   == <<"f","k","_","1">>
W_ord  == <<"o","r","d">>
W_uid  == <<"u","i","d">>
W_usr  == <<"U","s","r">>
W_id   == <<"i","d">>
MANY_TO_ONE == <<"m","a","n","y","-","t","o","-","o","n","e">>
MANY_TO_ONE_CAPS == <<"M","a","n","y","-","T","o","-","O","n","e">>
ONE_TO_ONE  == <<"o","n","e","-","t","o","-","o","n","e">>
ONE_TO_MANY_WORDS == <<"o","n","e"," ","t","o"," ","M","A","N","Y">>

WriteRefLine(name, st, sc, tt, tc, card, layout) ==
    CASE layout = "plain" ->
           REF \o SP \o name \o <<":"," ">> \o st \o <<".">> \o sc \o <<" ",">"," ">>
           \o tt \o <<".">> \o tc \o <<" ","/","/"," ">> \o card
      [] layout = "tight" ->
           REF \o SP \o name \o <<":"," ">> \o st \o <<".">> \o sc \o <<">">>
           \o tt \o <<".">> \o tc \o <<"/","/">> \o card
      [] layout = "loose" ->
           REF \o <<"\t"," ">> \o name \o <<":"," "," ">> \o st \o <<".">> \o sc
           \o <<" "," ",">","\t">> \o tt \o <<".">> \o tc \o <<"\t","/","/"," "," ">>
           \o card \o <<" ","\t">>

GoodLine(name, st, sc, tt, tc, card, layout) ==
    [text |-> WriteRefLine(name, st, sc, tt, tc, card, layout),
     rel  |-> <<[name |-> name, sourceTable |-> st, sourceColumn |-> sc,
                 targetTable |-> tt, targetColumn |-> tc, type |-> card]>>]

BadLine(text) == [text |-> text, rel |-> <<>>]

PlainRef == WriteRefLine(W_fk, W_ord, W_uid, W_usr, W_id, MANY_TO_ONE, "plain")

LinePool ==
    { GoodLine(W_fk, W_ord, W_uid, W_usr, W_id, MANY_TO_ONE, "plain"),
      GoodLine(W_ord, W_usr, W_id, W_ord, W_uid, ONE_TO_ONE, "tight"),
      GoodLine(W_id, W_ord, W_id, W_usr, W_uid, ONE_TO_MANY_WORDS, "loose"),
      \* a comment of white space only: the last blank is the sixth group, trimmed to ""
      GoodLine(W_fk, W_usr, W_id, W_usr, W_id, <<>>, "loose"),
      BadLine(<<>>),
      BadLine(<<" "," ">>),
      \* a line of a CRLF file: "." does not match the carriage return before $
      BadLine(PlainRef \o <<"\r">>),
      \* leading blank, lower-case keyword, no blank after the colon
      BadLine(SP \o PlainRef),
      BadLine(<<"r","e","f">> \o SubSeq(PlainRef, 4, Len(PlainRef))),
      BadLine(REF \o SP \o W_fk \o <<":">> \o W_ord \o <<".">> \o W_uid \o <<" ",">"," ">>
              \o W_usr \o <<".">> \o W_id \o <<" ","/","/"," ">> \o MANY_TO_ONE),
      \* no cardinality comment, nothing after the comment marker
      BadLine(REF \o SP \o W_fk \o <<":"," ">> \o W_ord \o <<".">> \o W_uid \o <<" ",">"," ">>
              \o W_usr \o <<".">> \o W_id),
      BadLine(REF \o SP \o W_fk \o <<":"," ">> \o W_ord \o <<".">> \o W_uid \o <<" ",">"," ">>
              \o W_usr \o <<".">> \o W_id \o <<" ","/","/">>),
      \* a table without a column
      BadLine(REF \o SP \o W_fk \o <<":"," ">> \o W_ord \o <<" ",">"," ">>
              \o W_usr \o <<".">> \o W_id \o <<" ","/","/"," ">> \o MANY_TO_ONE) }

LineTexts(ls) == [i \in 1..Len(ls) |-> ls[i].text]

----------------------------------------------------------------------------
(* Inputs of the renderer runs *)

T_int  == <<"i","n","t">>
T_text == <<"t","e","x","t">>
N_t    == <<"t","b">>
N_T    == <<"T","b">>
N_u    == <<"u","s">>

C_plain == Column(<<"a">>, T_text, FALSE, FALSE, FALSE, <<>>)
C_pk    == Column(<<"i">>, T_int, TRUE, FALSE, FALSE, <<>>)
C_pk2   == Column(<<"j">>, T_int, TRUE, FALSE, FALSE, <<>>)
C_fk    == Column(<<"f">>, T_int, FALSE, TRUE, FALSE, Ref(N_u, <<"i">>))
C_pkfk  == Column(<<"g">>, T_int, TRUE, TRUE, FALSE, Ref(N_u, <<"i">>))
C_uqfk  == Column(<<"h">>, <<>>, FALSE, TRUE, TRUE, Ref(<<"n","o">>, <<"i">>))

TablePool ==
    { Table(N_t, <<C_pk, C_fk>>),
      Table(N_t, <<C_pkfk>>),
      Table(N_t, <<C_pkfk, C_pk2>>),
      Table(N_t, <<C_uqfk, C_plain>>),
      Table(N_T, <<C_plain>>),
      Table(N_T, <<C_fk>>),
      Table(N_T, <<C_pk2, C_pkfk>>),
      Table(N_u, <<C_pk>>),
      Table(N_u, <<>>) }

Rel(name, st, sc, tt, tc, type) ==
    [name |-> name, sourceTable |-> st, sourceColumn |-> sc,
     targetTable |-> tt, targetColumn |-> tc, type |-> type]

RelPool ==
    { Rel(W_fk, N_t, <<"f">>, N_u, <<"i">>, MANY_TO_ONE),
      Rel(W_ord, N_T, <<"f">>, N_u, <<"i">>, MANY_TO_ONE_CAPS),
      Rel(W_id, N_u, <<"i">>, N_t, <<"g">>, ONE_TO_ONE) }

----------------------------------------------------------------------------
(* The runs of the pure functions *)

InitDetect ==
    /\ pc = "detect"
    /\ sql \in SqlTexts
    /\ dialect = "none" /\ content = <<>> /\ relations = <<>>
    /\ files = <<>> /\ fi = 1 /\ tables = <<>> /\ erd = <<>>
    /\ src = <<>> /\ hist = <<>>

DetectDatabase ==
    /\ pc = "detect"
    /\ dialect' = detectDatabase(sql)
    /\ pc' = "detected"
    /\ UNCHANGED <<sql, content, relations, files, fi, tables, erd, src, hist>>

SpecDetect == InitDetect /\ [][DetectDatabase]_vars

InitRel ==
    /\ pc = "relations"
    /\ src \in SeqsUpTo(LinePool, MaxLines)
    /\ content = join(LineTexts(src), NL)
    /\ sql = <<>> /\ dialect = "none" /\ relations = <<>>
    /\ files = <<>> /\ fi = 1 /\ tables = <<>> /\ erd = <<>>
    /\ hist = <<>>

ParseRelationshipFile ==
    /\ pc = "relations"
    /\ relations' = parseRelationshipFile(content)
    /\ pc' = "render"
    /\ UNCHANGED <<sql, dialect, content, files, fi, tables, erd, src, hist>>

SpecRel == InitRel /\ [][ParseRelationshipFile]_vars

InitERD ==
    /\ pc = "render"
    /\ tables \in SeqsUpTo(TablePool, MaxTables)
    /\ relations \in SeqsUpTo(RelPool, MaxRels)
    /\ sql = <<>> /\ dialect = "none" /\ content = <<>>
    /\ files = <<>> /\ fi = 1 /\ erd = <<>>
    /\ src = <<>> /\ hist = <<>>

GenerateMermaidERD ==
    /\ pc = "render"
    /\ erd' = generateMermaidERD(tables, relations)
    /\ pc' = "rendered"
    /\ UNCHANGED <<sql, dialect, content, relations, files, fi, tables, src, hist>>

SpecERD == InitERD /\ [][GenerateMermaidERD]_vars

----------------------------------------------------------------------------
(* Reading a diagram back: its lines and the words of a line *)

ErdLines(e) ==
    LET ls == split(e, "\n")
    IN IF ls[Len(ls)] = <<>> THEN SubSeq(ls, 1, Len(ls) - 1) ELSE ls

Words(line) == SelectSeq(split(line, " "), LAMBDA w : w # <<>>)

\* pat occurs in s when letters are compared without regard to case
ContainsCI(s, pat) ==
    \E i \in 1..Len(s) :
        /\ i + Len(pat) - 1 <= Len(s)
        /\ \A j \in 1..Len(pat) : UpperChar(s[i + j - 1]) = UpperChar(pat[j])

HasPostgresSig(s) ==
    ContainsCI(s, SIG_SERIAL) \/ ContainsCI(s, SIG_BYTEA) \/ ContainsCI(s, SIG_CAST)
HasMySqlSig(s) ==
    ContainsCI(s, SIG_AUTO_INCREMENT) \/ ContainsCI(s, SIG_ENGINE) \/ ContainsCI(s, SIG_UNSIGNED)
HasSqliteSig(s) ==
    ContainsCI(s, SIG_AUTOINCREMENT) \/ ContainsCI(s, SIG_WITHOUT_ROWID)

----------------------------------------------------------------------------
\* C1: detectDatabase returns one of Postgres, MySQL, SQLite for every text, by first
\* match: a Postgres signature (SERIAL, BYTEA, ::) in any letter case gives Postgres even
\* beside MySQL or SQLite signatures; else a MySQL signature (AUTO_INCREMENT, ENGINE=,
\* UNSIGNED) gives MySQL even beside SQLite signatures; else a SQLite signature
\* (AUTOINCREMENT, WITHOUT ROWID) gives SQLite; else Postgres.
C1_DetectFirstMatch ==
    pc = "detected" =>
        /\ dialect \in {"Postgres", "MySQL", "SQLite"}
        /\ HasPostgresSig(sql) => dialect = "Postgres"
        /\ (~HasPostgresSig(sql) /\ HasMySqlSig(sql)) => dialect = "MySQL"
        /\ (~HasPostgresSig(sql) /\ ~HasMySqlSig(sql) /\ HasSqliteSig(sql))
              => dialect = "SQLite"
        /\ (~HasPostgresSig(sql) /\ ~HasMySqlSig(sql) /\ ~HasSqliteSig(sql))
              => dialect = "Postgres"

\* a text holding a Postgres, a MySQL and a SQLite signature was classified
C1_Witness ==
    /\ pc = "detected"
    /\ HasPostgresSig(sql) /\ HasMySqlSig(sql) /\ HasSqliteSig(sql)
    /\ dialect = "Postgres"

\* further cases the detector runs reach: MySQL before SQLite, and the default
C1_WitnessMySqlOverSqlite ==
    /\ pc = "detected"
    /\ ~HasPostgresSig(sql) /\ HasMySqlSig(sql) /\ HasSqliteSig(sql)
    /\ dialect = "MySQL"

----------------------------------------------------------------------------
\* C10: parseRelationshipFile is total and returns exactly one Relation per line that
\* matches the Ref grammar, in line order, with the six fields of that line (the
\* cardinality trimmed); every other line, blank or malformed, is skipped and does not
\* change what the other lines give.
RECURSIVE ExpectedRelations(_)
ExpectedRelations(ls) ==
    IF ls = <<>> THEN <<>> ELSE Head(ls).rel \o ExpectedRelations(Tail(ls))

C10_OneRelationPerRefLine ==
    pc = "render" => relations = ExpectedRelations(src)

\* a text whose first line is malformed and whose later lines hold two relations
C10_Witness ==
    /\ pc = "render"
    /\ Len(src) = 3
    /\ src[1].rel = <<>>
    /\ src[1].text # <<>>
    /\ Len(relations) = 2
    /\ relations[1] # relations[2]

----------------------------------------------------------------------------
(* What the claims about the renderer read off a diagram *)

\* the upper-cased names of the tables, and the first table bearing each
UpperNames(schemas) == {toUpperCase(schemas[i].name) : i \in 1..Len(schemas)}

FirstNamed(schemas, N) ==
    schemas[CHOOSE i \in 1..Len(schemas) :
               /\ toUpperCase(schemas[i].name) = N
               /\ \A j \in 1..(i - 1) : toUpperCase(schemas[j].name) # N]

HeaderLine(N) == <<" "," ">> \o N \o <<" ","{">>
CloseLine == <<" "," ","}">>

\* the places of the lines opening a block for N
HeaderPlaces(lines, N) == {i \in 1..Len(lines) : lines[i] = HeaderLine(N)}

\* the lines of the block opened at place h, up to the line closing it
BlockAt(lines, h) ==
    LET close == CHOOSE k \in (h + 1)..Len(lines) :
                    /\ lines[k] = CloseLine
                    /\ \A j \in (h + 1)..(k - 1) : lines[j] # CloseLine
    IN SubSeq(lines, h + 1, close - 1)

IsColumnLine(line) == OccursAt(line, <<" "," "," "," ">>, 1)
IsHeaderLine(line) ==
    Len(line) > 2 /\ ~IsColumnLine(line) /\ OccursAt(line, <<" ","{">>, Len(line) - 1)

RECURSIVE SumOver(_, _)
SumOver(S, f) ==
    IF S = {} THEN 0
    ELSE LET x == CHOOSE y \in S : TRUE IN f[x] + SumOver(S \ {x}, f)

\* the foreign-key columns that carry a reference, in table then column order
RECURSIVE ForeignColumns(_, _, _)
ForeignColumns(schemas, t, c) ==
    IF t > Len(schemas) THEN <<>>
    ELSE IF c > Len(schemas[t].columns) THEN ForeignColumns(schemas, t + 1, 1)
    ELSE (IF schemas[t].columns[c].isForeign /\ schemas[t].columns[c].references # <<>>
          THEN <<[table |-> schemas[t], col |-> schemas[t].columns[c]]>> ELSE <<>>)
         \o ForeignColumns(schemas, t, c + 1)

\* the diagram of a non-empty table list ends with the lines of the explicit
\* relations followed by the lines derived from the foreign keys
ExplicitLine(lines, k) ==
    lines[Len(lines) - Len(ForeignColumns(tables, 1, 1)) - Len(relations) + k]
DerivedLine(lines, k) ==
    lines[Len(lines) - Len(ForeignColumns(tables, 1, 1)) + k]

Rendered == pc = "rendered"

----------------------------------------------------------------------------
\* C3: for a non-empty table sequence the diagram holds exactly one entity block per
\* distinct upper-cased table name; of tables whose names differ only in case the first
\* alone gets the block, which lists exactly that table's columns in their order, and the
\* later ones add no block and no column line.
C3_OneBlockPerUpperName ==
    (Rendered /\ Len(tables) > 0) =>
        LET lines == ErdLines(erd)
            names == UpperNames(tables)
        IN /\ \A N \in names :
                /\ Cardinality(HeaderPlaces(lines, N)) = 1
                /\ LET block == BlockAt(lines, CHOOSE h \in HeaderPlaces(lines, N) : TRUE)
                       first == FirstNamed(tables, N)
                   IN /\ Len(block) = Len(first.columns)
                      /\ \A k \in 1..Len(block) :
                            Words(block[k])[2] = first.columns[k].name
           /\ Cardinality({i \in 1..Len(lines) : IsHeaderLine(lines[i])})
                = Cardinality(names)
           /\ Cardinality({i \in 1..Len(lines) : IsColumnLine(lines[i])})
                = SumOver(names, [N \in names |-> Len(FirstNamed(tables, N).columns)])

\* two tables named alike up to case, with different columns, were rendered
C3_Witness ==
    /\ Rendered
    /\ Len(tables) = 2
    /\ tables[1].name # tables[2].name
    /\ toUpperCase(tables[1].name) = toUpperCase(tables[2].name)
    /\ tables[1].columns # tables[2].columns
    /\ Len(tables[2].columns) > 0

----------------------------------------------------------------------------
\* C4: every column line carries at most one badge: PK alone when isPrimary is set (also
\* when isForeign is set too), FK alone when isForeign is set and isPrimary is not, and
\* none when neither is set.
C4_OneBadge ==
    (Rendered /\ Len(tables) > 0) =>
        LET lines == ErdLines(erd) IN
        \A N \in UpperNames(tables) :
            LET block == BlockAt(lines, CHOOSE h \in HeaderPlaces(lines, N) : TRUE)
                first == FirstNamed(tables, N)
            IN \A k \in 1..Len(first.columns) :
                  LET col    == first.columns[k]
                      words  == Words(block[k])
                      badges == SubSeq(words, 3, Len(words))
                  IN /\ k <= Len(block)
                     /\ col.isPrimary => badges = <<PK>>
                     /\ (col.isForeign /\ ~col.isPrimary) => badges = <<FK>>
                     /\ (~col.isForeign /\ ~col.isPrimary) => badges = <<>>

\* a column both primary and foreign was rendered, beside one that is foreign only
C4_Witness ==
    /\ Rendered
    /\ \E t \in 1..Len(tables) : \E c \in 1..Len(tables[t].columns) :
          tables[t].columns[c].isPrimary /\ tables[t].columns[c].isForeign
    /\ \E t \in 1..Len(tables) : \E c \in 1..Len(tables[t].columns) :
          ~tables[t].columns[c].isPrimary /\ tables[t].columns[c].isForeign
    /\ includes(erd, <<" ","P","K","\n">>)
    /\ includes(erd, <<" ","F","K","\n">>)

----------------------------------------------------------------------------
\* C5: the relation line of a foreign-key column uses the one-to-one arrow if and only
\* if the column is unique, or is primary and its table has exactly one primary-key
\* column; every other foreign-key column, a part of a composite primary key included,
\* uses the one-to-many arrow.
NumPrimary(table) ==
    Cardinality({i \in 1..Len(table.columns) : table.columns[i].isPrimary})

C5_ForeignKeyArrow ==
    (Rendered /\ Len(tables) > 0) =>
        LET lines == ErdLines(erd)
            fks   == ForeignColumns(tables, 1, 1)
        IN \A k \in 1..Len(fks) :
              LET words == Words(DerivedLine(lines, k))
                  one   == \/ fks[k].col.isUnique
                           \/ fks[k].col.isPrimary /\ NumPrimary(fks[k].table) = 1
              IN /\ Len(words) = 5
                 /\ words[1] = toUpperCase(fks[k].col.references[1].table)
                 /\ words[3] = toUpperCase(fks[k].table.name)
                 /\ one => words[2] = ARROW_ONE_TO_ONE
                 /\ ~one => words[2] = ARROW_ONE_TO_MANY

\* a foreign key that is one part of a composite primary key was rendered one-to-many,
\* and a foreign key that is the sole primary key one-to-one
C5_Witness ==
    /\ Rendered
    /\ \E t \in 1..Len(tables) : \E c \in 1..Len(tables[t].columns) :
          /\ tables[t].columns[c].isPrimary /\ tables[t].columns[c].isForeign
          /\ NumPrimary(tables[t]) = 2
    /\ \E t \in 1..Len(tables) : \E c \in 1..Len(tables[t].columns) :
          /\ tables[t].columns[c].isPrimary /\ tables[t].columns[c].isForeign
          /\ NumPrimary(tables[t]) = 1
    /\ includes(erd, ARROW_ONE_TO_ONE)
    /\ includes(erd, ARROW_ONE_TO_MANY)

----------------------------------------------------------------------------
\* C7: for a non-empty table list there is exactly one relation line per explicit
\* Relation, in input order, reading TARGET arrow SOURCE : label with the table names
\* upper-cased; the arrow is one-to-many if and only if the cardinality text contains
\* "many" in any letter case, else one-to-one.
C7_ExplicitRelationLines ==
    (Rendered /\ Len(tables) > 0) =>
        LET lines == ErdLines(erd)
            names == UpperNames(tables)
        IN /\ Len(lines) = 1 + 2 * Cardinality(names)
                           + SumOver(names, [N \in names |-> Len(FirstNamed(tables, N).columns)])
                           + Len(relations) + Len(ForeignColumns(tables, 1, 1))
           /\ \A k \in 1..Len(relations) :
                 LET words == Words(ExplicitLine(lines, k))
                     rel   == relations[k]
                 IN /\ Len(words) >= 5
                    /\ words[1] = toUpperCase(rel.targetTable)
                    /\ words[3] = toUpperCase(rel.sourceTable)
                    /\ words[4] = <<":">>
                    /\ ContainsCI(rel.type, MANY) <=> words[2] = ARROW_ONE_TO_MANY
                    /\ ~ContainsCI(rel.type, MANY) <=> words[2] = ARROW_ONE_TO_ONE

\* a relation whose cardinality is spelled with capitals was rendered before a
\* one-to-one relation
C7_Witness ==
    /\ Rendered
    /\ Len(tables) > 0
    /\ Len(relations) = 2
    /\ relations[1].type = MANY_TO_ONE_CAPS
    /\ relations[2].type = ONE_TO_ONE

----------------------------------------------------------------------------
\* C8: for an empty table list the diagram is exactly the fixed placeholder, the single
\* EMPTY entity with the note "No tables found", whatever the relations: no relation
\* line is written.
PlaceholderWords ==
    << <<<<"e","r","D","i","a","g","r","a","m">>>>,
       <<<<"E","M","P","T","Y">>, <<"{">>>>,
       <<<<"s","t","r","i","n","g">>, <<"n","o","t","e">>, <<"\"","N","o">>,
         <<"t","a","b","l","e","s">>, <<"f","o","u","n","d","\"">>>>,
       <<<<"}">>>> >>

C8_EmptyPlaceholder ==
    (Rendered /\ Len(tables) = 0) =>
        LET lines == ErdLines(erd)
        IN /\ Len(lines) = 4
           /\ \A i \in 1..4 : Words(lines[i]) = PlaceholderWords[i]
           /\ erd = PLACEHOLDER

\* the renderer was given no table and two relations
C8_Witness ==
    /\ Rendered
    /\ Len(tables) = 0
    /\ Len(relations) = 2

----------------------------------------------------------------------------
(* applyAlterFksFromSql: the regular expression ALTER_FK_RE.               *)
(* A matcher takes a text and a position and gives the position after what *)
(* it matched, or 0 when it does not match there.                          *)

\* a keyword under the "i" flag
MatchKeyword(s, p, kw) ==
    IF p >= 1 /\ p + Len(kw) - 1 <= Len(s)
       /\ \A j \in 1..Len(kw) : LowerChar(s[p + j - 1]) = kw[j]
    THEN p + Len(kw) ELSE 0

\* \s+
MatchSpaces1(s, p) ==
    IF p = 0 THEN 0
    ELSE LET q == SkipSpaces(s, p) IN IF q > p THEN q ELSE 0

\* \s*
MatchSpaces0(s, p) == IF p = 0 THEN 0 ELSE SkipSpaces(s, p)

\* a literal character
MatchChar(s, p, c) == IF p >= 1 /\ p <= Len(s) /\ s[p] = c THEN p + 1 ELSE 0

\* [^c]+ : the first position at or after p that holds c (or the end of the text)
RECURSIVE SkipUntil(_, _, _)
SkipUntil(s, p, c) ==
    IF p <= Len(s) /\ s[p] # c THEN SkipUntil(s, p + 1, c) ELSE p

\* open [^close]+ close, a quoted identifier
MatchQuoted(s, p, open, close) ==
    LET q == SkipUntil(s, p + 1, close)
    IN IF MatchChar(s, p, open) # 0 /\ q > p + 1 /\ q <= Len(s) THEN q + 1 ELSE 0

IsIdentStart(c) == c \in Letters \cup {"_"}
IsIdentChar(c) == c \in Letters \cup Digits \cup {"_", "$"}

RECURSIVE SkipIdentChars(_, _)
SkipIdentChars(s, p) ==
    IF p <= Len(s) /\ IsIdentChar(s[p]) THEN SkipIdentChars(s, p + 1) ELSE p

\* IDENT: double-quoted | backticked | bracketed | [A-Za-z_][A-Za-z0-9_$]*
MatchIdent(s, p) ==
    IF p = 0 \/ p > Len(s) THEN 0
    ELSE IF s[p] = "\"" THEN MatchQuoted(s, p, "\"", "\"")
    ELSE IF s[p] = "BACKTICK" THEN MatchQuoted(s, p, "BACKTICK", "BACKTICK")
    ELSE IF s[p] = "[" THEN MatchQuoted(s, p, "[", "]")
    ELSE IF IsIdentStart(s[p]) THEN SkipIdentChars(s, p + 1)
    ELSE 0

\* QUALIFIED: IDENT(?:\.IDENT)?
MatchQualified(s, p) ==
    LET e == MatchIdent(s, p)
        d == MatchIdent(s, MatchChar(s, e, "."))
    IN IF e # 0 /\ d # 0 THEN d ELSE e

\* \( [^)]+ \) : the position of the closing parenthesis, p being that of the opening one
MatchParenList(s, p) ==
    LET q == SkipUntil(s, p + 1, ")")
    IN IF MatchChar(s, p, "(") # 0 /\ q > p + 1 /\ q <= Len(s) THEN q ELSE 0

KW_ALTER      == <<"a","l","t","e","r">>
KW_TABLE      == <<"t","a","b","l","e">>
KW_ADD        == <<"a","d","d">>
KW_CONSTRAINT == <<"c","o","n","s","t","r","a","i","n","t">>
KW_FOREIGN    == <<"f","o","r","e","i","g","n">>
KW_KEY        == <<"k","e","y">>
KW_REFERENCES == <<"r","e","f","e","r","e","n","c","e","s">>

\* the elements of a pattern: a keyword, \s+, \s*, IDENT, a capturing QUALIFIED,
\* a capturing \(([^)]+)\) and an optional non-capturing group
RE_kw(w)        == [k |-> "kw", w |-> w, g |-> 0, sub |-> <<>>]
RE_s1           == [k |-> "s+", w |-> <<>>, g |-> 0, sub |-> <<>>]
RE_s0           == [k |-> "s*", w |-> <<>>, g |-> 0, sub |-> <<>>]
RE_ident        == [k |-> "ident", w |-> <<>>, g |-> 0, sub |-> <<>>]
RE_qualified(g) == [k |-> "qualified", w |-> <<>>, g |-> g, sub |-> <<>>]
RE_parens(g)    == [k |-> "parens", w |-> <<>>, g |-> g, sub |-> <<>>]
RE_opt(sub)     == [k |-> "opt", w |-> <<>>, g |-> 0, sub |-> sub]

ALTER_FK_RE ==
    <<RE_kw(KW_ALTER), RE_s1, RE_kw(KW_TABLE), RE_s1, RE_qualified(1), RE_s1,
      RE_kw(KW_ADD), RE_s1,
      RE_opt(<<RE_kw(KW_CONSTRAINT), RE_s1, RE_ident, RE_s1>>),
      RE_kw(KW_FOREIGN), RE_s1, RE_kw(KW_KEY), RE_s0, RE_parens(2), RE_s1,
      RE_kw(KW_REFERENCES), RE_s1, RE_qualified(3), RE_s0, RE_parens(4)>>

\* A match in progress is [p, g]: the position reached (0 once it has failed) and the
\* groups captured.  MatchElement matches one element, MatchFrom the elements from
\* index i on; n \in {e} names the value of e.
RECURSIVE MatchFrom(_, _, _, _)
RECURSIVE MatchElement(_, _, _)
MatchElement(s, el, st) ==
    CASE el.k = "kw"    -> [st EXCEPT !.p = MatchKeyword(s, st.p, el.w)]
      [] el.k = "s+"    -> [st EXCEPT !.p = MatchSpaces1(s, st.p)]
      [] el.k = "s*"    -> [st EXCEPT !.p = MatchSpaces0(s, st.p)]
      [] el.k = "ident" -> [st EXCEPT !.p = MatchIdent(s, st.p)]
      [] el.k = "qualified" ->
            CHOOSE r \in {IF e = 0 THEN [st EXCEPT !.p = 0]
                          ELSE [p |-> e, g |-> [st.g EXCEPT ![el.g] = SubSeq(s, st.p, e - 1)]]
                          : e \in {MatchQualified(s, st.p)}} : TRUE
      [] el.k = "parens" ->
            CHOOSE r \in {IF e = 0 THEN [st EXCEPT !.p = 0]
                          ELSE [p |-> e + 1,
                                g |-> [st.g EXCEPT ![el.g] = SubSeq(s, st.p + 1, e - 1)]]
                          : e \in {MatchParenList(s, st.p)}} : TRUE
      [] el.k = "opt"   ->
            CHOOSE r \in {IF n.p = 0 THEN st ELSE n : n \in {MatchFrom(s, el.sub, 1, st)}} : TRUE

MatchFrom(s, pat, i, st) ==
    IF st.p = 0 \/ i > Len(pat) THEN st
    ELSE CHOOSE r \in {MatchFrom(s, pat, i + 1, n) : n \in {MatchElement(s, pat[i], st)}} : TRUE

\* ALTER_FK_RE anchored at position p: <<>> or <<the groups and the end of the match>>
AlterFkMatchAt(s, p) ==
    CHOOSE m \in {IF r.p = 0 THEN <<>>
                  ELSE <<[table    |-> r.g[1],
                          cols     |-> r.g[2],
                          reftable |-> r.g[3],
                          refcols  |-> r.g[4],
                          end      |-> r.p]>>
                  : r \in {MatchFrom(s, ALTER_FK_RE, 1,
                                     [p |-> p, g |-> <<<<>>, <<>>, <<>>, <<>>>>])}} : TRUE

\* sql.matchAll(ALTER_FK_RE): the matches from position p on, left to right, a search
\* resuming where the last match ended
RECURSIVE matchAll(_, _)
matchAll(s, p) ==
    CHOOSE r \in
        {IF starts = {} THEN <<>>
         ELSE CHOOSE ms \in {m \o matchAll(s, m[1].end)
                             : m \in {AlterFkMatchAt(s, q)
                                      : q \in {x \in starts : \A y \in starts : x <= y}}} : TRUE
         : starts \in {{q \in p..Len(s) : AlterFkMatchAt(s, q) # <<>>}}} : TRUE

\* one of the three replace calls of norm: strip the quotes when they enclose all of s
StripQuotes(s, open, close) ==
    IF Len(s) >= 2 /\ s[1] = open /\ s[Len(s)] = close
       /\ \A k \in 2..(Len(s) - 1) : s[k] # open /\ s[k] # close
    THEN SubSeq(s, 2, Len(s) - 1)
    ELSE s

norm(s) == StripQuotes(StripQuotes(StripQuotes(trim(s), "BACKTICK", "BACKTICK"), "\"", "\""), "[", "]")

splitCols(list) ==
    LET parts == split(list, ",")
    IN [i \in 1..Len(parts) |-> trim(toLowerCase(norm(parts[i])))]

\* Array.prototype.find, the callback's answers given as hits: the index of the first
\* element for which it answers true, or 0
FindIndex(hits) ==
    IF \E i \in 1..Len(hits) : hits[i]
    THEN CHOOSE i \in 1..Len(hits) : hits[i] /\ \A j \in 1..(i - 1) : ~hits[j]
    ELSE 0

\* findTable: exact name first, then without regard to case; 0 when there is none
findTable(tbls, name) ==
    LET clean == norm(name)
        exact == FindIndex([k \in 1..Len(tbls) |-> tbls[k].name = clean])
    IN IF exact # 0 THEN exact
       ELSE FindIndex([k \in 1..Len(tbls) |-> toLowerCase(tbls[k].name) = toLowerCase(clean)])

\* the pairing the Postgres branch has: every child column with the first parent column
RECURSIVE MarkChildColumns_firstParent(_, _, _, _, _)
MarkChildColumns_firstParent(cols, childCols, parentCols, parentTableName, i) ==
    IF i > Len(childCols) THEN cols
    ELSE LET c == FindIndex([k \in 1..Len(cols) |-> toLowerCase(cols[k].name) = childCols[i]])
         IN MarkChildColumns_firstParent(
                IF c = 0 THEN cols
                ELSE [cols EXCEPT ![c].isForeign = TRUE,
                                  ![c].references = Ref(norm(parentTableName), parentCols[1])],
                childCols, parentCols, parentTableName, i + 1)

\* the loop over childCols, from index i on, on the columns of the child table
RECURSIVE MarkChildColumns(_, _, _, _, _)
MarkChildColumns(cols, childCols, parentCols, parentTableName, i) ==
    IF i > Len(childCols) THEN cols
    ELSE LET cName == childCols[i]
             pCol  == IF i <= Len(parentCols) THEN parentCols[i] ELSE parentCols[1]
             c     == FindIndex([k \in 1..Len(cols) |-> toLowerCase(cols[k].name) = cName])
             next  == IF c = 0 THEN cols
                      ELSE [cols EXCEPT ![c].isForeign = TRUE,
                                        ![c].references = Ref(norm(parentTableName), pCol)]
         IN MarkChildColumns(next, childCols, parentCols, parentTableName, i + 1)

\* a pass that would register the child table it does not find
ApplyMatch_createMissing(tbls, m) ==
    LET child == findTable(tbls, m.table)
    IN IF child = 0 THEN Append(tbls, Table(norm(m.table), <<>>))
       ELSE [tbls EXCEPT ![child].columns =
                MarkChildColumns(@, splitCols(m.cols), splitCols(m.refcols), m.reftable, 1)]

\* the body of the loop over the matches
ApplyMatch(tbls, m) ==
    LET child == findTable(tbls, m.table)
    IN IF child = 0 THEN tbls
       ELSE [tbls EXCEPT ![child].columns =
                MarkChildColumns(@, splitCols(m.cols), splitCols(m.refcols), m.reftable, 1)]

\* for (const m of sql.matchAll(ALTER_FK_RE)), from match i on
RECURSIVE ApplyMatches(_, _, _)
ApplyMatches(tbls, ms, i) ==
    IF i > Len(ms) THEN tbls
    ELSE CHOOSE r \in {ApplyMatches(next, ms, i + 1) : next \in {ApplyMatch(tbls, ms[i])}} : TRUE

applyAlterFksFromSql(text, tbls) ==
    CHOOSE r \in {ApplyMatches(t, ms, 1) : t \in {tbls}, ms \in {matchAll(text, 1)}} : TRUE

----------------------------------------------------------------------------
(* The two dialect engines.  pgParse and astify are libraries; the model   *)
(* holds, for a file, the text and what each engine gives for it: a parse  *)
(* error, or the statements with the fields SQLParser.parse reads.         *)
(*                                                                         *)
(* pgParse statements:                                                     *)
(*   [type |-> "create table", name, columns, constraints]                 *)
(*      a column: [kind |-> "column", name, dataType, constraints]         *)
(*             or [kind |-> "like table"], which has no name               *)
(*      a constraint: [type |-> "primary key", columns]                    *)
(*   [type |-> "alter table", table, commands]                             *)
(*      a command: [type |-> "add constraint", constraint |->              *)
(*                    [type |-> "foreign key", columns, foreignTable,      *)
(*                     foreignColumns]]                                    *)
(* astify statements:                                                      *)
(*   [type |-> "create", table, create_definitions]                        *)
(*      a definition: [resource |-> "column", column, dataType,            *)
(*                     constraint_type, reference]                         *)
(*                 or [resource |-> "constraint", constraint_type,         *)
(*                     definition, reference]                              *)
(*   [type |-> "alter"]                                                    *)

S_unknown     == <<"u","n","k","n","o","w","n">>
S_primary_key == "primary key"
S_unique      == "unique"
S_foreign_key == "foreign key"

\* the result of a step that may throw
Ok(tbls)    == [threw |-> FALSE, tables |-> tbls]
Threw(tbls) == [threw |-> TRUE, tables |-> tbls]

\* --- Postgres parser ---

\* stmt.columns.map(...): reading col.name.name of a column without a name throws
PgColumnsThrow(stmt) ==
    \E i \in 1..Len(stmt.columns) : stmt.columns[i].kind # "column"

PgColumn(col) ==
    Column(col.name,
           IF col.dataType = <<>> THEN S_unknown ELSE col.dataType,
           \E i \in 1..Len(col.constraints) : col.constraints[i] = S_primary_key,
           FALSE,
           \E i \in 1..Len(col.constraints) : col.constraints[i] = S_unique,
           <<>>)

\* constraint.columns.forEach of a table-level primary key, from index i on
RECURSIVE PgMarkPrimary(_, _, _)
PgMarkPrimary(cols, pkCols, i) ==
    IF i > Len(pkCols) THEN cols
    ELSE LET c == FindIndex([k \in 1..Len(cols) |-> cols[k].name = pkCols[i]])
         IN PgMarkPrimary(IF c = 0 THEN cols ELSE [cols EXCEPT ![c].isPrimary = TRUE],
                          pkCols, i + 1)

\* stmt.constraints?.forEach, from index i on
RECURSIVE PgTableConstraints(_, _, _)
PgTableConstraints(cols, constraints, i) ==
    IF i > Len(constraints) THEN cols
    ELSE PgTableConstraints(
            IF constraints[i].type = S_primary_key
            THEN PgMarkPrimary(cols, constraints[i].columns, 1)
            ELSE cols,
            constraints, i + 1)

PgCreateTable(tbls, stmt) ==
    IF PgColumnsThrow(stmt) THEN Threw(tbls)
    ELSE LET columns == [i \in 1..Len(stmt.columns) |-> PgColumn(stmt.columns[i])]
         IN Ok(Append(tbls, Table(stmt.name,
                                  PgTableConstraints(columns, stmt.constraints, 1))))

\* a handling that would set the flag and leave references unset
PgCommand_flagOnly(cols, cmd) ==
    IF cmd.type = "add constraint" /\ cmd.constraint.type = S_foreign_key
    THEN LET c == FindIndex([k \in 1..Len(cols) |-> cols[k].name = cmd.constraint.columns[1]])
         IN IF c = 0 THEN cols ELSE [cols EXCEPT ![c].isForeign = TRUE]
    ELSE cols

\* one command of an ALTER TABLE: only the first column of each list is read
PgCommand(cols, cmd) ==
    IF cmd.type = "add constraint" /\ cmd.constraint.type = S_foreign_key
    THEN LET colName  == cmd.constraint.columns[1]
             refTable == cmd.constraint.foreignTable
             refCol   == cmd.constraint.foreignColumns[1]
             c        == FindIndex([k \in 1..Len(cols) |-> cols[k].name = colName])
         IN IF c = 0 THEN cols
            ELSE [cols EXCEPT ![c].isForeign = TRUE, ![c].references = Ref(refTable, refCol)]
    ELSE cols

RECURSIVE PgCommands(_, _, _)
PgCommands(cols, commands, i) ==
    IF i > Len(commands) THEN cols
    ELSE PgCommands(PgCommand(cols, commands[i]), commands, i + 1)

PgAlterTable(tbls, stmt) ==
    LET t == FindIndex([k \in 1..Len(tbls) |-> tbls[k].name = stmt.table])
    IN IF t = 0 THEN Ok(tbls)
       ELSE Ok([tbls EXCEPT ![t].columns = PgCommands(@, stmt.commands, 1)])

PgStatement(tbls, stmt) ==
    IF stmt.type = "create table" THEN PgCreateTable(tbls, stmt)
    ELSE IF stmt.type = "alter table" THEN PgAlterTable(tbls, stmt)
    ELSE Ok(tbls)

\* ast.forEach: the statements from index i on, up to the first that throws
RECURSIVE PgStatements(_, _, _)
PgStatements(tbls, stmts, i) ==
    IF i > Len(stmts) THEN Ok(tbls)
    ELSE CHOOSE out \in {IF r.threw THEN r ELSE PgStatements(r.tables, stmts, i + 1)
                         : r \in {PgStatement(tbls, stmts[i])}} : TRUE

\* the handling that would keep a failing file out: restore tables when anything throws
PostgresBranch_rollback(tbls, file) ==
    IF file.pg.throws THEN [failed |-> TRUE, aborted |-> FALSE, tables |-> tbls]
    ELSE LET r == PgStatements(tbls, file.pg.stmts, 1)
         IN [failed |-> r.threw, aborted |-> FALSE,
             tables |-> IF r.threw THEN tbls ELSE r.tables]

\* the try block of the Postgres branch: whatever is thrown is caught and logged,
\* and what was pushed before stays in tables
PostgresBranch(tbls, file) ==
    IF file.pg.throws THEN [failed |-> TRUE, aborted |-> FALSE, tables |-> tbls]
    ELSE LET r == PgStatements(tbls, file.pg.stmts, 1)
         IN [failed |-> r.threw, aborted |-> FALSE, tables |-> r.tables]

\* --- MySQL/SQLite parser ---

\* a column definition carrying constraint_type "foreign key" is read through
\* col.reference, which throws when there is none
MyColumnThrows(def) ==
    def.constraint_type = S_foreign_key /\ def.reference = <<>>

MyColumn(def) ==
    Column(def.column,
           IF def.dataType = <<>> THEN S_unknown ELSE def.dataType,
           def.constraint_type = S_primary_key,
           def.constraint_type = S_foreign_key,
           def.constraint_type = S_unique,
           IF def.constraint_type = S_foreign_key THEN def.reference ELSE <<>>)

\* constraint.definition.forEach of a table-level primary key, from index i on
RECURSIVE MyMarkPrimary(_, _, _)
MyMarkPrimary(cols, pkCols, i) ==
    IF i > Len(pkCols) THEN cols
    ELSE LET c == FindIndex([k \in 1..Len(cols) |-> toLowerCase(cols[k].name) = toLowerCase(pkCols[i])])
         IN MyMarkPrimary(IF c = 0 THEN cols ELSE [cols EXCEPT ![c].isPrimary = TRUE],
                          pkCols, i + 1)

\* fkCols.forEach of a table-level foreign key, from index idx on: refCols[idx].column
\* throws when the matched column has no counterpart in refCols
RECURSIVE MyMarkForeign(_, _, _, _, _)
MyMarkForeign(cols, fkCols, refTable, refCols, idx) ==
    IF idx > Len(fkCols) THEN [threw |-> FALSE, cols |-> cols]
    ELSE LET c == FindIndex([k \in 1..Len(cols) |-> toLowerCase(cols[k].name) = toLowerCase(fkCols[idx])])
         IN IF c = 0 THEN MyMarkForeign(cols, fkCols, refTable, refCols, idx + 1)
            ELSE IF idx > Len(refCols) THEN [threw |-> TRUE, cols |-> cols]
            ELSE MyMarkForeign([cols EXCEPT ![c].isForeign = TRUE,
                                            ![c].references = Ref(refTable, refCols[idx])],
                               fkCols, refTable, refCols, idx + 1)

\* the forEach over the constraint definitions, from index i on
RECURSIVE MyTableConstraints(_, _, _)
MyTableConstraints(cols, constraints, i) ==
    IF i > Len(constraints) THEN [threw |-> FALSE, cols |-> cols]
    ELSE LET k  == constraints[i]
             c1 == IF k.constraint_type = S_primary_key
                   THEN MyMarkPrimary(cols, k.definition, 1) ELSE cols
         IN IF k.constraint_type = S_foreign_key
            THEN IF k.reference = <<>> THEN [threw |-> TRUE, cols |-> c1]
                 ELSE LET r == MyMarkForeign(c1, k.definition, k.reference[1].table,
                                             k.reference[1].definition, 1)
                      IN IF r.threw THEN r ELSE MyTableConstraints(r.cols, constraints, i + 1)
            ELSE MyTableConstraints(c1, constraints, i + 1)

MyCreate(tbls, stmt) ==
    LET defs        == stmt.create_definitions
        columnDefs  == SelectSeq(defs, LAMBDA d : d.resource = "column")
        constraints == SelectSeq(defs, LAMBDA d : d.resource = "constraint")
    IN IF stmt.table = <<>> THEN Ok(tbls)
       ELSE IF \E i \in 1..Len(columnDefs) : MyColumnThrows(columnDefs[i]) THEN Threw(tbls)
       ELSE LET columns == [i \in 1..Len(columnDefs) |-> MyColumn(columnDefs[i])]
                r       == MyTableConstraints(columns, constraints, 1)
            IN IF r.threw THEN Threw(tbls)
               ELSE Ok(Append(tbls, Table(stmt.table, r.cols)))

MyStatement(tbls, stmt) ==
    IF stmt.type = "create" THEN MyCreate(tbls, stmt) ELSE Ok(tbls)

RECURSIVE MyStatements(_, _, _)
MyStatements(tbls, stmts, i) ==
    IF i > Len(stmts) THEN Ok(tbls)
    ELSE CHOOSE out \in {IF r.threw THEN r ELSE MyStatements(r.tables, stmts, i + 1)
                         : r \in {MyStatement(tbls, stmts[i])}} : TRUE

\* the else branch: astify inside try/catch (a parse error returns from the callback),
\* the statement loop and the regex pass outside it (what they throw leaves parse)
MySqlBranch(tbls, file) ==
    IF file.my.throws THEN [failed |-> TRUE, aborted |-> FALSE, tables |-> tbls]
    ELSE CHOOSE out \in
            {IF r.threw THEN [failed |-> TRUE, aborted |-> TRUE, tables |-> r.tables]
             ELSE [failed |-> FALSE, aborted |-> FALSE,
                   tables |-> applyAlterFksFromSql(file.text, r.tables)]
             : r \in {MyStatements(tbls, file.my.stmts, 1)}} : TRUE

\* the callback of fileContents.forEach
ParseOneFile(tbls, file) ==
    IF detectDatabase(file.text) = "Postgres"
    THEN PostgresBranch(tbls, file)
    ELSE MySqlBranch(tbls, file)

\* const tables: TableSchema[] = [] at the head of parse
ParseEntry_keep(tbls) == tbls

ParseEntry(tbls) == <<>>

----------------------------------------------------------------------------
(* Input files.  A file is written out from a description of its           *)
(* statements, which also gives what the two engines return for it, so     *)
(* that the text the detector and the regex pass read and the statements   *)
(* the branches read belong to the same file.                              *)
(*   [k |-> "create", name, cols, pk, fks, tail]                           *)
(*       a column: [kind, name, type, extra, pk, uq]                       *)
(*       pk: the names of a table-level PRIMARY KEY (...) clause           *)
(*       fks: table-level FOREIGN KEY clauses [cols, reftable, refcols]    *)
(*   [k |-> "alter", table, quote, adds]                                   *)
(*       an add: [cname, cols, reftable, refcols]                          *)
(*   [k |-> "junk"]: text no grammar accepts                               *)

SCol(name, type, extra, pk, uq) ==
    [kind |-> "column", name |-> name, type |-> type, extra |-> extra, pk |-> pk, uq |-> uq]
SLike(name) ==
    [kind |-> "like table", name |-> name, type |-> <<>>, extra |-> <<>>,
     pk |-> FALSE, uq |-> FALSE]
SCreate(name, cols, pk, fks, tail) ==
    [k |-> "create", name |-> name, cols |-> cols, pk |-> pk, fks |-> fks, tail |-> tail]
SFk(cname, cols, reftable, refcols) ==
    [cname |-> cname, cols |-> cols, reftable |-> reftable, refcols |-> refcols]
SAlter(table, quote, adds) ==
    [k |-> "alter", table |-> table, quote |-> quote, adds |-> adds]
SJunk == [k |-> "junk"]

COMMA_SP == <<",", " ">>

CloseQuote(q) == IF q = <<"[">> THEN <<"]">> ELSE q

WriteColumn(c) ==
    IF c.kind = "like table" THEN <<"L","I","K","E"," ">> \o c.name
    ELSE c.name \o SP \o c.type
         \o (IF c.extra # <<>> THEN SP \o c.extra ELSE <<>>)
         \o (IF c.pk THEN <<" ","P","R","I","M","A","R","Y"," ","K","E","Y">> ELSE <<>>)
         \o (IF c.uq THEN <<" ","U","N","I","Q","U","E">> ELSE <<>>)

WriteFkClause(f) ==
    (IF f.cname # <<>> THEN <<"C","O","N","S","T","R","A","I","N","T"," ">> \o f.cname \o SP ELSE <<>>)
    \o <<"F","O","R","E","I","G","N"," ","K","E","Y"," ","(">> \o join(f.cols, COMMA_SP)
    \o <<")"," ","R","E","F","E","R","E","N","C","E","S"," ">> \o f.reftable \o <<"(">> \o join(f.refcols, COMMA_SP) \o <<")">>

WriteStatement(st) ==
    CASE st.k = "create" ->
           <<"C","R","E","A","T","E"," ","T","A","B","L","E"," ">> \o st.name \o <<" ", "(">>
           \o join([i \in 1..Len(st.cols) |-> WriteColumn(st.cols[i])]
                   \o (IF st.pk # <<>>
                       THEN <<<<"P","R","I","M","A","R","Y"," ","K","E","Y"," ","(">> \o join(st.pk, COMMA_SP) \o <<")">>>>
                       ELSE <<>>)
                   \o [i \in 1..Len(st.fks) |-> WriteFkClause(st.fks[i])],
                   COMMA_SP)
           \o <<")">> \o st.tail \o <<";", "\n">>
      [] st.k = "alter" ->
           <<"A","L","T","E","R"," ","T","A","B","L","E"," ">> \o st.quote \o st.table \o CloseQuote(st.quote) \o SP
           \o join([i \in 1..Len(st.adds) |-> <<"A","D","D"," ">> \o WriteFkClause(st.adds[i])],
                   COMMA_SP)
           \o <<";", "\n">>
      [] st.k = "junk" -> <<"C","R","E","A","T","E"," ","T","A","B","L","E"," ","(",";">> \o NL

WriteSql(stmts) == Concat([i \in 1..Len(stmts) |-> WriteStatement(stmts[i])])

\* what pgParse gives: an identifier written without quotes is folded to lower case
PgAstColumn(c) ==
    IF c.kind = "like table" THEN [kind |-> "like table"]
    ELSE [kind |-> "column", name |-> toLowerCase(c.name), dataType |-> toLowerCase(c.type),
          constraints |-> (IF c.pk THEN <<S_primary_key>> ELSE <<>>)
                          \o (IF c.uq THEN <<S_unique>> ELSE <<>>)]

LowerAll(names) == [i \in 1..Len(names) |-> toLowerCase(names[i])]

PgAstStatement(st) ==
    CASE st.k = "create" ->
           [type |-> "create table", name |-> toLowerCase(st.name),
            columns |-> [i \in 1..Len(st.cols) |-> PgAstColumn(st.cols[i])],
            constraints |->
               (IF st.pk # <<>>
                THEN <<[type |-> S_primary_key, columns |-> LowerAll(st.pk)]>> ELSE <<>>)
               \o [i \in 1..Len(st.fks) |->
                     [type |-> S_foreign_key, columns |-> LowerAll(st.fks[i].cols)]]]
      [] st.k = "alter" ->
           [type |-> "alter table",
            table |-> IF st.quote = <<>> THEN toLowerCase(st.table) ELSE st.table,
            commands |-> [i \in 1..Len(st.adds) |->
               [type |-> "add constraint",
                constraint |-> [type |-> S_foreign_key,
                                columns |-> LowerAll(st.adds[i].cols),
                                foreignTable |-> toLowerCase(st.adds[i].reftable),
                                foreignColumns |-> LowerAll(st.adds[i].refcols)]]]]

HasJunk(stmts) == \E i \in 1..Len(stmts) : stmts[i].k = "junk"

PgAst(stmts) ==
    IF HasJunk(stmts) THEN [throws |-> TRUE, stmts |-> <<>>]
    ELSE [throws |-> FALSE, stmts |-> [i \in 1..Len(stmts) |-> PgAstStatement(stmts[i])]]

\* what astify gives: identifiers as written
MyAstColumn(c) ==
    [resource |-> "column", column |-> c.name, dataType |-> c.type,
     constraint_type |-> IF c.pk THEN S_primary_key ELSE IF c.uq THEN S_unique ELSE "",
     reference |-> <<>>]

MyAstStatement(st) ==
    CASE st.k = "create" ->
           [type |-> "create", table |-> st.name,
            create_definitions |->
               [i \in 1..Len(st.cols) |-> MyAstColumn(st.cols[i])]
               \o (IF st.pk # <<>>
                   THEN <<[resource |-> "constraint", constraint_type |-> S_primary_key,
                           definition |-> st.pk, reference |-> <<>>]>>
                   ELSE <<>>)
               \o [i \in 1..Len(st.fks) |->
                     [resource |-> "constraint", constraint_type |-> S_foreign_key,
                      definition |-> st.fks[i].cols,
                      reference |-> <<[table |-> st.fks[i].reftable,
                                       definition |-> st.fks[i].refcols]>>]]]
      [] st.k = "alter" -> [type |-> "alter"]

MyAst(stmts) ==
    IF HasJunk(stmts) THEN [throws |-> TRUE, stmts |-> <<>>]
    ELSE [throws |-> FALSE, stmts |-> [i \in 1..Len(stmts) |-> MyAstStatement(stmts[i])]]

\* desc keeps the description the file was written from (read by the properties only)
File(stmts) ==
    [text |-> WriteSql(stmts), pg |-> PgAst(stmts), my |-> MyAst(stmts), desc |-> stmts]

\* names and types of the descriptions
N_users == <<"u","s","e","r","s">>
N_roles == <<"r","o","l","e","s">>
N_user_roles == <<"u","s","e","r","_","r","o","l","e","s">>
N_id == <<"i","d">>
N_user_id == <<"u","s","e","r","_","i","d">>
N_role_id == <<"r","o","l","e","_","i","d">>
N_username == <<"u","s","e","r","n","a","m","e">>
N_email == <<"e","m","a","i","l">>
N_created_at == <<"c","r","e","a","t","e","d","_","a","t">>
N_role_name == <<"r","o","l","e","_","n","a","m","e">>
T_INT == <<"I","N","T">>
T_VARCHAR == <<"V","A","R","C","H","A","R">>
T_TIMESTAMP == <<"T","I","M","E","S","T","A","M","P">>
T_SERIAL == <<"S","E","R","I","A","L">>
T_INTEGER == <<"I","N","T","E","G","E","R">>
X_AUTO_INCREMENT == <<"A","U","T","O","_","I","N","C","R","E","M","E","N","T">>
X_AUTOINCREMENT == <<"A","U","T","O","I","N","C","R","E","M","E","N","T">>
X_ENGINE == <<" ","E","N","G","I","N","E","=","I","n","n","o","D","B">>
N_a == <<"a">>
N_b == <<"b">>
N_B == <<"B">>
N_c == <<"c">>
N_x == <<"x">>
N_y == <<"y">>
N_fk == <<"f","k","1">>

\* entities/v1.sql: the users, roles and user_roles tables and the ALTER TABLE
\* user_roles statement (lines 1-20 and 71-74), as written
V1_TEXT ==
    <<"-","-"," ","U","s","e","r","s"," ","t","a","b","l","e","\n">>
    \o <<"C","R","E","A","T","E"," ","T","A","B","L","E"," ","u","s","e","r","s"," ","(","\n">>
    \o <<" "," ","i","d"," ","I","N","T"," ","A","U","T","O","_","I","N","C","R","E","M","E","N","T"," ","P","R","I","M","A","R","Y"," ","K","E","Y",",","\n">>
    \o <<" "," ","u","s","e","r","n","a","m","e"," ","V","A","R","C","H","A","R","(","2","5","5",")"," ","N","O","T"," ","N","U","L","L",",","\n">>
    \o <<" "," ","e","m","a","i","l"," ","V","A","R","C","H","A","R","(","2","5","5",")"," ","U","N","I","Q","U","E",",","\n">>
    \o <<" "," ","c","r","e","a","t","e","d","_","a","t"," ","T","I","M","E","S","T","A","M","P"," ","D","E","F","A","U","L","T"," ","C","U","R","R","E","N","T","_","T","I","M","E","S","T","A","M","P","\n">>
    \o <<")"," ","E","N","G","I","N","E","=","I","n","n","o","D","B",";","\n">>
    \o <<"\n">>
    \o <<"-","-"," ","R","o","l","e","s"," ","t","a","b","l","e","\n">>
    \o <<"C","R","E","A","T","E"," ","T","A","B","L","E"," ","r","o","l","e","s"," ","(","\n">>
    \o <<" "," ","i","d"," ","I","N","T"," ","A","U","T","O","_","I","N","C","R","E","M","E","N","T"," ","P","R","I","M","A","R","Y"," ","K","E","Y",",","\n">>
    \o <<" "," ","r","o","l","e","_","n","a","m","e"," ","V","A","R","C","H","A","R","(","1","0","0",")"," ","N","O","T"," ","N","U","L","L","\n">>
    \o <<")"," ","E","N","G","I","N","E","=","I","n","n","o","D","B",";","\n">>
    \o <<"\n">>
    \o <<"-","-"," ","U","s","e","r"," ","R","o","l","e","s"," ","(","m","a","n","y","-","t","o","-","m","a","n","y"," ","v","i","a"," ","j","o","i","n"," ","t","a","b","l","e",")","\n">>
    \o <<"C","R","E","A","T","E"," ","T","A","B","L","E"," ","u","s","e","r","_","r","o","l","e","s"," ","(","\n">>
    \o <<" "," ","u","s","e","r","_","i","d"," ","I","N","T"," ","N","O","T"," ","N","U","L","L",",","\n">>
    \o <<" "," ","r","o","l","e","_","i","d"," ","I","N","T"," ","N","O","T"," ","N","U","L","L",",","\n">>
    \o <<" "," ","P","R","I","M","A","R","Y"," ","K","E","Y"," ","(","u","s","e","r","_","i","d",","," ","r","o","l","e","_","i","d",")","\n">>
    \o <<")"," ","E","N","G","I","N","E","=","I","n","n","o","D","B",";","\n">>
    \o <<"\n">>
    \o <<"-","-"," ","F","o","r","e","i","g","n"," ","K","e","y","s"," ","v","i","a"," ","A","L","T","E","R","\n">>
    \o <<"A","L","T","E","R"," ","T","A","B","L","E"," ","u","s","e","r","_","r","o","l","e","s","\n">>
    \o <<" "," ","A","D","D"," ","C","O","N","S","T","R","A","I","N","T"," ","f","k","_","u","s","e","r","r","o","l","e","s","_","u","s","e","r"," ","F","O","R","E","I","G","N"," ","K","E","Y"," ","(","u","s","e","r","_","i","d",")"," ","R","E","F","E","R","E","N","C","E","S"," ","u","s","e","r","s","(","i","d",")",",","\n">>
    \o <<" "," ","A","D","D"," ","C","O","N","S","T","R","A","I","N","T"," ","f","k","_","u","s","e","r","r","o","l","e","s","_","r","o","l","e"," ","F","O","R","E","I","G","N"," ","K","E","Y"," ","(","r","o","l","e","_","i","d",")"," ","R","E","F","E","R","E","N","C","E","S"," ","r","o","l","e","s","(","i","d",")",";","\n">>

V1_STATEMENTS ==
    << SCreate(N_users,
               <<SCol(N_id, T_INT, X_AUTO_INCREMENT, TRUE, FALSE),
                 SCol(N_username, T_VARCHAR, <<>>, FALSE, FALSE),
                 SCol(N_email, T_VARCHAR, <<>>, FALSE, TRUE),
                 SCol(N_created_at, T_TIMESTAMP, <<>>, FALSE, FALSE)>>,
               <<>>, <<>>, X_ENGINE),
       SCreate(N_roles,
               <<SCol(N_id, T_INT, X_AUTO_INCREMENT, TRUE, FALSE),
                 SCol(N_role_name, T_VARCHAR, <<>>, FALSE, FALSE)>>,
               <<>>, <<>>, X_ENGINE),
       SCreate(N_user_roles,
               <<SCol(N_user_id, T_INT, <<>>, FALSE, FALSE),
                 SCol(N_role_id, T_INT, <<>>, FALSE, FALSE)>>,
               <<N_user_id, N_role_id>>, <<>>, X_ENGINE),
       SAlter(N_user_roles, <<>>,
              <<SFk(<<"f","k","_","u">>, <<N_user_id>>, N_users, <<N_id>>),
                SFk(<<"f","k","_","r">>, <<N_role_id>>, N_roles, <<N_id>>)>>) >>

V1_FILE ==
    [text |-> V1_TEXT, pg |-> PgAst(V1_STATEMENTS), my |-> MyAst(V1_STATEMENTS),
     desc |-> V1_STATEMENTS]

\* a Postgres file: two tables, a composite key, a foreign key added by ALTER TABLE
F_pg ==
    File(<< SCreate(N_a, <<SCol(N_id, T_SERIAL, <<>>, TRUE, FALSE)>>, <<>>, <<>>, <<>>),
            SCreate(N_b, <<SCol(N_x, T_INT, <<>>, FALSE, FALSE),
                           SCol(N_y, T_INT, <<>>, FALSE, TRUE)>>,
                    <<N_x, N_y>>, <<>>, <<>>),
            SAlter(N_b, <<>>, <<SFk(N_fk, <<N_x>>, N_a, <<N_id>>)>>) >>)

\* a file without any signature (Postgres by default): the second CREATE TABLE copies
\* the columns of the first with LIKE
F_pgLike ==
    File(<< SCreate(N_c, <<SCol(N_x, T_INT, <<>>, TRUE, FALSE)>>, <<>>, <<>>, <<>>),
            SCreate(N_y, <<SLike(N_c)>>, <<>>, <<>>, <<>>) >>)

\* a file without any signature that no grammar accepts
F_pgJunk ==
    File(<< SCreate(N_x, <<SCol(N_id, T_INT, <<>>, FALSE, FALSE)>>, <<>>, <<>>, <<>>),
            SJunk >>)

\* a MySQL file: one table and a foreign key added by ALTER TABLE on the quoted name
F_my ==
    File(<< SCreate(N_B, <<SCol(N_id, T_INT, X_AUTO_INCREMENT, TRUE, FALSE),
                           SCol(N_x, T_INT, <<>>, FALSE, FALSE)>>, <<>>, <<>>, X_ENGINE),
            SAlter(N_b, <<"BACKTICK">>, <<SFk(<<>>, <<N_x>>, N_a, <<N_id>>)>>) >>)

\* a MySQL file that no grammar accepts
F_myJunk ==
    File(<< SCreate(N_c, <<SCol(N_id, T_INT, X_AUTO_INCREMENT, TRUE, FALSE)>>,
                    <<>>, <<>>, <<>>),
            SJunk >>)

\* a MySQL file whose second table has a table-level foreign key naming two columns
\* and one referenced column
F_myShortRef ==
    File(<< SCreate(N_a, <<SCol(N_id, T_INT, X_AUTO_INCREMENT, TRUE, FALSE)>>,
                    <<>>, <<>>, <<>>),
            SCreate(N_c, <<SCol(N_x, T_INT, <<>>, FALSE, FALSE),
                           SCol(N_y, T_INT, <<>>, FALSE, FALSE)>>,
                    <<>>, <<SFk(<<>>, <<N_x, N_y>>, N_a, <<N_id>>)>>, X_ENGINE) >>)

\* a SQLite file
F_lite ==
    File(<< SCreate(N_y, <<SCol(N_id, T_INTEGER, X_AUTOINCREMENT, TRUE, FALSE),
                           SCol(N_x, T_INT, <<>>, FALSE, FALSE)>>,
                    <<>>, <<SFk(<<>>, <<N_x>>, N_B, <<N_id>>)>>, <<>>) >>)

\* a MySQL file whose ALTER TABLE comes before the CREATE TABLE of its table
F_myAlterFirst ==
    File(<< SAlter(N_c, <<>>, <<SFk(<<>>, <<N_x>>, N_a, <<N_id>>)>>),
            SCreate(N_c, <<SCol(N_id, T_INT, X_AUTO_INCREMENT, TRUE, FALSE),
                           SCol(N_x, T_INT, <<>>, FALSE, FALSE)>>, <<>>, <<>>, <<>>) >>)

\* a Postgres file whose ALTER TABLE comes before the CREATE TABLE of its table
F_pgAlterFirst ==
    File(<< SAlter(N_c, <<>>, <<SFk(<<>>, <<N_x>>, N_a, <<N_id>>)>>),
            SCreate(N_c, <<SCol(N_id, T_SERIAL, <<>>, TRUE, FALSE),
                           SCol(N_x, T_INT, <<>>, FALSE, FALSE)>>, <<>>, <<>>, <<>>) >>)

\* a MySQL file with a column-level REFERENCES, for which astify is taken to give the
\* column definition the constraint_type "foreign key" and its reference
X_REFERENCES_a_id == <<"R","E","F","E","R","E","N","C","E","S"," ","a","(","i","d",")">>

F_myColumnFk ==
    [File(<< SCreate(N_u, <<SCol(N_id, T_INT, X_AUTO_INCREMENT, TRUE, FALSE),
                            SCol(N_x, T_INT, X_REFERENCES_a_id, FALSE, FALSE)>>,
                     <<>>, <<>>, <<>>) >>)
     EXCEPT !.my.stmts[1].create_definitions[2].constraint_type = S_foreign_key,
            !.my.stmts[1].create_definitions[2].reference = Ref(N_a, N_id)]

\* a Postgres file whose ALTER TABLE adds a foreign key over two columns
F_pgComposite ==
    File(<< SCreate(N_a, <<SCol(N_id, T_SERIAL, <<>>, FALSE, FALSE),
                           SCol(N_y, T_INT, <<>>, FALSE, FALSE)>>,
                    <<N_id, N_y>>, <<>>, <<>>),
            SCreate(N_c, <<SCol(N_x, T_INT, <<>>, FALSE, FALSE),
                           SCol(N_y, T_INT, <<>>, FALSE, FALSE)>>, <<>>, <<>>, <<>>),
            SAlter(N_c, <<>>, <<SFk(N_fk, <<N_x, N_y>>, N_a, <<N_id, N_y>>)>>) >>)

FilePool ==
    {V1_FILE, F_pg, F_pgLike, F_pgJunk, F_my, F_myJunk, F_myShortRef, F_lite,
     F_myAlterFirst, F_pgAlterFirst, F_myColumnFk, F_pgComposite}

AnnotationPool ==
    { <<>>,
      join(<<PlainRef, <<"-","-"," ","n","o","t","e">>,
             WriteRefLine(W_ord, N_b, N_x, N_a, N_id, ONE_TO_ONE, "tight")>>, NL) }

MaxFiles == 2   \* files handed to one run of the command

----------------------------------------------------------------------------
(* The command: SQLParser.parse over the files, parseRelationshipFile on   *)
(* the annotation text, generateMermaidERD; then the command once more on  *)
(* the same inputs.                                                        *)

Init ==
    /\ pc = "parse"
    /\ files \in SeqsUpTo(FilePool, MaxFiles)
    /\ content \in AnnotationPool
    /\ fi = 1
    /\ tables = ParseEntry(<<>>)
    /\ relations = <<>>
    /\ erd = <<>>
    /\ sql = <<>>
    /\ dialect = "none"
    /\ src = <<>>
    /\ hist = [run |-> 1, firstTables |-> <<>>, firstErd |-> <<>>, log |-> <<>>]

\* one call of the forEach callback of parse
ParseFile ==
    /\ pc = "parse"
    /\ fi <= Len(files)
    /\ \E r \in {ParseOneFile(tables, files[fi])} :
          /\ tables' = r.tables
          /\ pc' = IF r.aborted THEN "thrown" ELSE "parse"
          /\ hist' = [hist EXCEPT !.log = Append(@, [failed  |-> r.failed,
                                                      aborted |-> r.aborted,
                                                      before  |-> tables,
                                                      after   |-> r.tables])]
    /\ dialect' = detectDatabase(files[fi].text)
    /\ fi' = fi + 1
    /\ UNCHANGED <<sql, content, relations, files, erd, src>>

\* return tables: the command goes on to read the annotation file
ParseReturn ==
    /\ pc = "parse"
    /\ fi > Len(files)
    /\ pc' = "relations"
    /\ UNCHANGED <<sql, dialect, content, relations, files, fi, tables, erd, src, hist>>

\* the command is run again on the same inputs; parse starts from its own empty list
Reinvoke ==
    /\ pc = "rendered"
    /\ hist.run = 1
    /\ hist' = [run |-> 2, firstTables |-> tables, firstErd |-> erd, log |-> <<>>]
    /\ tables' = ParseEntry(tables)
    /\ fi' = 1
    /\ relations' = <<>>
    /\ erd' = <<>>
    /\ pc' = "parse"
    /\ UNCHANGED <<sql, dialect, content, files, src>>

Next ==
    \/ ParseFile
    \/ ParseReturn
    \/ ParseRelationshipFile
    \/ GenerateMermaidERD
    \/ Reinvoke

Spec == Init /\ [][Next]_vars

----------------------------------------------------------------------------
\* C2: a file whose processing fails, on either path, contributes no table, leaves the
\* tables of the earlier files as they were, and does not keep the later files from
\* being parsed.
C2_FailingFileContributesNothing ==
    \A i \in 1..Len(hist.log) :
        hist.log[i].failed => /\ hist.log[i].after = hist.log[i].before
                              /\ ~hist.log[i].aborted

\* the part of C2 the code keeps: a file its engine rejects with a parse error
\* changes nothing and the next file is parsed
ParserRejects(file) ==
    IF detectDatabase(file.text) = "Postgres" THEN file.pg.throws ELSE file.my.throws

C2_RejectedFileContributesNothing ==
    \A i \in 1..Len(hist.log) :
        ParserRejects(files[i]) => /\ hist.log[i].failed
                                   /\ hist.log[i].after = hist.log[i].before
                                   /\ ~hist.log[i].aborted

----------------------------------------------------------------------------
\* C6: on the users, roles and user_roles DDL of entities/v1.sql the diagram holds the
\* USERS and ROLES entity blocks and both relation lines,
\* USERS ||--o{ USER_ROLES : user_id(arrow)id and ROLES ||--o{ USER_ROLES : role_id(arrow)id.
U_USERS      == <<"U","S","E","R","S">>
U_ROLES      == <<"R","O","L","E","S">>
U_USER_ROLES == <<"U","S","E","R","_","R","O","L","E","S">>

V1RelationLine(parent, col) ==
    <<" "," ">> \o parent \o SP \o ARROW_ONE_TO_MANY \o SP \o U_USER_ROLES
    \o <<" ",":"," ">> \o col \o <<"RARROW">> \o N_id \o NL

V1Rendered == pc = "rendered" /\ files = <<V1_FILE>>

C6_EndToEndV1 ==
    V1Rendered =>
        /\ includes(erd, HeaderLine(U_USERS) \o NL)
        /\ includes(erd, HeaderLine(U_ROLES) \o NL)
        /\ includes(erd, V1RelationLine(U_USERS, N_user_id))
        /\ includes(erd, V1RelationLine(U_ROLES, N_role_id))

\* what the code does give on that input: the blocks and the first relation line
C6_V1FirstClauseOnly ==
    V1Rendered =>
        /\ includes(erd, HeaderLine(U_USERS) \o NL)
        /\ includes(erd, HeaderLine(U_ROLES) \o NL)
        /\ includes(erd, V1RelationLine(U_USERS, N_user_id))
        /\ ~includes(erd, V1RelationLine(U_ROLES, N_role_id))
        /\ Len(ForeignColumns(tables, 1, 1)) = 1

----------------------------------------------------------------------------
----------------------------------------------------------------------------
\* C11: parse never aborts: whatever statements the engines return, among them a
\* table-level FOREIGN KEY whose referenced list is shorter than its column list,
\* no call of the forEach callback throws out of parse and parse returns a table list.
C11_ParseNeverAborts ==
    /\ pc # "thrown"
    /\ \A i \in 1..Len(hist.log) : ~hist.log[i].aborted

----------------------------------------------------------------------------
\* C12: an ALTER TABLE ... ADD FOREIGN KEY statement is applied only to a table that
\* was registered when the statement is processed, by an earlier file or by an earlier
\* statement of its file; otherwise it is dropped, that is, the file leaves the tables
\* it would leave without the statement.  On both paths.
SameName(a, b) == toLowerCase(a) = toLowerCase(b)

Without(desc, j) == SubSeq(desc, 1, j - 1) \o SubSeq(desc, j + 1, Len(desc))

RegisteredAt(before, desc, j) ==
    \/ \E t \in 1..Len(before) : SameName(before[t].name, desc[j].table)
    \/ \E m \in 1..(j - 1) : desc[m].k = "create" /\ SameName(desc[m].name, desc[j].table)

UnregisteredAlterDropped(i) ==
    \A j \in 1..Len(files[i].desc) :
        (files[i].desc[j].k = "alter"
            /\ ~RegisteredAt(hist.log[i].before, files[i].desc, j))
        => hist.log[i].after
              = ParseOneFile(hist.log[i].before, File(Without(files[i].desc, j))).tables

C12_AlterOnlyOnRegistered ==
    \A i \in 1..Len(hist.log) : ~hist.log[i].failed => UnregisteredAlterDropped(i)

\* the part of C12 the code keeps: the Postgres path drops such a statement
C12_PostgresAlterOnlyOnRegistered ==
    \A i \in 1..Len(hist.log) :
        (~hist.log[i].failed /\ detectDatabase(files[i].text) = "Postgres")
            => UnregisteredAlterDropped(i)

----------------------------------------------------------------------------
(* applyAlterFksFromSql on its own: texts written from descriptions of       *)
(* ALTER TABLE statements, applied to lists of tables.                       *)
(*   a name: [q, n], the quote it is written in (or <<>>) and the bare name  *)
(*   [k |-> "fk", table, cname, cols, reftable, refcols, layout]             *)
(*   [k |-> "other"]: an ALTER TABLE that adds no foreign key                *)

Q(q, n) == [q |-> q, n |-> n]
Bare(n) == Q(<<>>, n)

WriteName(x) == x.q \o x.n \o CloseQuote(x.q)
WriteNames(xs) == join([i \in 1..Len(xs) |-> WriteName(xs[i])], COMMA_SP)

AFk(table, cname, cols, reftable, refcols, layout) ==
    [k |-> "fk", table |-> table, cname |-> cname, cols |-> cols,
     reftable |-> reftable, refcols |-> refcols, layout |-> layout]
AOther == [k |-> "other"]

WriteAlter(d) ==
    CASE d.k = "other" ->
           <<"A","L","T","E","R"," ","T","A","B","L","E"," ","c"," ","A","D","D"," ",
             "C","O","L","U","M","N"," ","z"," ","I","N","T",";">> \o NL
      [] d.k = "fk" /\ d.layout = "upper" ->
           <<"A","L","T","E","R"," ","T","A","B","L","E"," ">> \o WriteName(d.table)
           \o <<" ","A","D","D"," ">>
           \o (IF d.cname # <<>>
               THEN <<"C","O","N","S","T","R","A","I","N","T"," ">> \o d.cname \o SP ELSE <<>>)
           \o <<"F","O","R","E","I","G","N"," ","K","E","Y"," ","(">> \o WriteNames(d.cols)
           \o <<")"," ","R","E","F","E","R","E","N","C","E","S"," ">> \o WriteName(d.reftable)
           \o <<"(">> \o WriteNames(d.refcols) \o <<")",";">> \o NL
      [] d.k = "fk" /\ d.layout = "lower" ->
           <<"a","l","t","e","r"," "," ","t","a","b","l","e","\t">> \o WriteName(d.table)
           \o <<"\n"," "," ","a","d","d"," ">>
           \o (IF d.cname # <<>>
               THEN <<"c","o","n","s","t","r","a","i","n","t"," ">> \o d.cname \o SP ELSE <<>>)
           \o <<"f","o","r","e","i","g","n"," ","k","e","y","(">> \o WriteNames(d.cols)
           \o <<")","\n"," "," ","r","e","f","e","r","e","n","c","e","s"," ">>
           \o WriteName(d.reftable)
           \o <<" ","("," ">> \o WriteNames(d.refcols) \o <<" ",")",";">> \o NL

WriteAlters(ds) == Concat([i \in 1..Len(ds) |-> WriteAlter(ds[i])])

N_p    == <<"p">>
N_q    == <<"q">>
N_z    == <<"z">>
N_zz   == <<"z","z">>
N_X    == <<"X">>
N_Y    == <<"Y">>
N_C    == <<"C">>
N_ID   == <<"I","D">>
N_nope == <<"n","o","p","e">>
BQ     == <<"BACKTICK">>
DQ     == <<"\"">>
SQB    == <<"[">>

\* (x, y) on (p, q)
D_pair    == AFk(Bare(N_c), N_fk, <<Bare(N_x), Bare(N_y)>>, Bare(N_a),
                 <<Bare(N_p), Bare(N_q)>>, "upper")
\* (x, y) on (id): the referenced list is the shorter one; the table is written C
D_short   == AFk(Q(BQ, N_C), <<>>, <<Bare(N_x), Bare(N_y)>>, Bare(N_a), <<Bare(N_id)>>, "lower")
\* (zz, y) on (p, q): the table has no column zz
D_skip    == AFk(Bare(N_c), <<>>, <<Bare(N_zz), Bare(N_y)>>, Bare(N_a),
                 <<Bare(N_p), Bare(N_q)>>, "upper")
\* a table no list holds
D_nope    == AFk(Bare(N_nope), N_fk, <<Bare(N_x)>>, Bare(N_a), <<Bare(N_id)>>, "upper")
\* quoted names, written in another case than the columns
D_quoted  == AFk(Q(DQ, N_c), <<>>, <<Q(DQ, N_X)>>, Q(SQB, N_a), <<Q(SQB, N_ID)>>, "lower")

AlterTextPool ==
    { <<>>, <<D_pair>>, <<D_short>>, <<D_skip>>, <<D_nope>>, <<D_quoted>>, <<AOther>>,
      <<AOther, D_pair>>, <<D_pair, D_short>>, <<D_nope, D_skip>> }

\* the tables the pass is applied to: c, its namesake C, c with columns already
\* foreign, and a
AlterTablePool ==
    { Table(N_c, <<Column(N_id, T_INT, TRUE, FALSE, FALSE, <<>>),
                   Column(N_x, T_INT, FALSE, FALSE, FALSE, <<>>),
                   Column(N_y, T_INT, FALSE, FALSE, TRUE, <<>>)>>),
      Table(N_C, <<Column(N_x, T_INT, TRUE, FALSE, FALSE, <<>>),
                   Column(N_Y, T_VARCHAR, FALSE, FALSE, FALSE, <<>>)>>),
      Table(N_c, <<Column(N_X, T_INT, FALSE, TRUE, FALSE, Ref(N_b, N_id)),
                   Column(N_z, T_INT, FALSE, TRUE, FALSE, Ref(N_b, N_id))>>),
      Table(N_a, <<Column(N_id, T_INT, TRUE, FALSE, FALSE, <<>>)>>) }

InitAlter ==
    /\ pc = "alter"
    /\ src \in AlterTextPool
    /\ sql = WriteAlters(src)
    /\ tables \in SeqsUpTo(AlterTablePool, MaxTables)
    /\ dialect = "none" /\ content = <<>> /\ relations = <<>>
    /\ files = <<>> /\ fi = 1 /\ erd = <<>> /\ hist = <<>>

\* applyAlterFksFromSql(sql, tables); hist keeps the tables as they were before
ApplyAlterFks ==
    /\ pc = "alter"
    /\ tables' = applyAlterFksFromSql(sql, tables)
    /\ hist' = tables
    /\ pc' = "altered"
    /\ UNCHANGED <<sql, dialect, content, relations, files, fi, erd, src>>

SpecAlter == InitAlter /\ [][ApplyAlterFks]_vars

----------------------------------------------------------------------------
\* C13: applyAlterFksFromSql changes nothing but the isForeign and references fields of
\* existing columns: the number and order of the tables, every table name, every
\* column's name, type, isPrimary and isUnique stay, no column is added or removed, and
\* a column that was foreign stays foreign.
SameButForeignKeys(old, new) ==
    /\ Len(new) = Len(old)
    /\ \A t \in 1..Len(old) :
          /\ new[t].name = old[t].name
          /\ Len(new[t].columns) = Len(old[t].columns)
          /\ \A c \in 1..Len(old[t].columns) :
                /\ new[t].columns[c].name = old[t].columns[c].name
                /\ new[t].columns[c].type = old[t].columns[c].type
                /\ new[t].columns[c].isPrimary = old[t].columns[c].isPrimary
                /\ new[t].columns[c].isUnique = old[t].columns[c].isUnique
                /\ old[t].columns[c].isForeign => new[t].columns[c].isForeign

C13_OnlyForeignKeyFields == pc = "altered" => SameButForeignKeys(hist, tables)

\* a pass that marked a column, beside a table it did not resolve and a column that
\* was foreign before
C13_Witness ==
    /\ pc = "altered"
    /\ tables # hist
    /\ \E j \in 1..Len(src) : src[j].k = "fk" /\ src[j].table.n = N_nope
    /\ \E t \in 1..Len(hist) : \E c \in 1..Len(hist[t].columns) :
          hist[t].columns[c].isForeign /\ tables[t].columns[c] = hist[t].columns[c]

----------------------------------------------------------------------------
\* C14: for each matched statement the i-th child column is paired with the i-th
\* parent column, every child column beyond the parent list with the first parent
\* column; a child column the table does not have (whatever the case) is skipped and
\* the others keep their pairing; the child table is the first of that exact name,
\* else the first of that name whatever the case, and when there is none nothing
\* changes.
Least(S) == IF S = {} THEN 0 ELSE CHOOSE x \in S : \A y \in S : x <= y

Resolve(tbls, name) ==
    IF \E t \in 1..Len(tbls) : tbls[t].name = name
    THEN Least({t \in 1..Len(tbls) : tbls[t].name = name})
    ELSE Least({t \in 1..Len(tbls) : SameName(tbls[t].name, name)})

ColumnOf(table, name) == Least({c \in 1..Len(table.columns) : SameName(table.columns[c].name, name)})

ParentOf(d, k) == d.refcols[IF k <= Len(d.refcols) THEN k ELSE 1].n

\* statement j of src names, as its k-th child column, column c of table t
Names(j, k, t, c) ==
    /\ src[j].k = "fk"
    /\ k \in 1..Len(src[j].cols)
    /\ t # 0 /\ t = Resolve(hist, src[j].table.n)
    /\ c # 0 /\ c = ColumnOf(hist[t], src[j].cols[k].n)

NamedLater(j, k, t, c) ==
    \E j2 \in j..Len(src) : \E k2 \in 1..(IF src[j2].k = "fk" THEN Len(src[j2].cols) ELSE 0) :
        (j2 > j \/ k2 > k) /\ Names(j2, k2, t, c)

C14_WitnessShort ==
    /\ pc = "altered"
    /\ src = <<D_short>>
    /\ \E t \in 1..Len(tables) :
          /\ tables[t].name = N_C
          /\ tables[t].columns[1].references = Ref(N_a, N_id)
          /\ tables[t].columns[2].references = Ref(N_a, N_id)

----------------------------------------------------------------------------
\* C15: in every table list parse returns, a column is foreign if and only if its
\* references is set, with a table and a column: nothing on the Postgres path, the
\* MySQL/SQLite path or in the regex pass sets the one without the other.
Returned == pc \in {"relations", "render", "rendered"}

ReferencesSet(col) ==
    /\ col.references # <<>>
    /\ Len(col.references) = 1
    /\ DOMAIN col.references[1] = {"table", "column"}

C15_ForeignIffReferences ==
    Returned =>
        \A t \in 1..Len(tables) : \A c \in 1..Len(tables[t].columns) :
            tables[t].columns[c].isForeign <=> ReferencesSet(tables[t].columns[c])

\* a returned list with a column made foreign by a Postgres ALTER TABLE, one made
\* foreign by a table-level FOREIGN KEY of the other path, and columns that are not
C15_Witness ==
    /\ Returned
    /\ files = <<F_pg, F_lite>>
    /\ Len(tables) = 3
    /\ tables[2].columns[1].isForeign /\ ~tables[2].columns[2].isForeign
    /\ tables[3].columns[2].isForeign /\ ~tables[3].columns[1].isForeign

----------------------------------------------------------------------------
\* C16: the lines derived from foreign keys come from the table sequence as given,
\* not from the de-duplicated one: there is one per foreign-key column of every input
\* table, also of a table that got no entity block, the reference is written as it
\* stands whether or not a table of that name exists, and these lines come after all
\* the lines of the explicit relations.
IsRelationLine(line) ==
    Len(Words(line)) >= 2 /\ Words(line)[2] \in {ARROW_ONE_TO_MANY, ARROW_ONE_TO_ONE}

BothArrows(fk) ==
    { <<" "," ">> \o toUpperCase(fk.col.references[1].table) \o SP \o arrow \o SP
      \o toUpperCase(fk.table.name) \o <<" ",":"," ">>
      \o fk.col.name \o <<"RARROW">> \o fk.col.references[1].column
      : arrow \in {ARROW_ONE_TO_MANY, ARROW_ONE_TO_ONE} }

C16_ForeignKeyLinesFromAllTables ==
    (Rendered /\ Len(tables) > 0) =>
        LET lines == ErdLines(erd)
            fks   == ForeignColumns(tables, 1, 1)
            first == Len(lines) - Len(fks) - Len(relations)
        IN /\ {i \in 1..Len(lines) : IsRelationLine(lines[i])} = (first + 1)..Len(lines)
           /\ \A k \in 1..Len(fks) : DerivedLine(lines, k) \in BothArrows(fks[k])
           /\ \A k \in 1..Len(relations) :
                 /\ Words(ExplicitLine(lines, k))[1] = toUpperCase(relations[k].targetTable)
                 /\ Words(ExplicitLine(lines, k))[3] = toUpperCase(relations[k].sourceTable)

\* the second of two tables named alike up to case got no block, and its foreign key,
\* to a table that is not in the list, got its line after the line of a relation
C16_Witness ==
    /\ Rendered
    /\ Len(tables) = 2
    /\ Len(relations) = 1
    /\ toUpperCase(tables[1].name) = toUpperCase(tables[2].name)
    /\ tables[2].columns = <<C_fk>>
    /\ \A c \in 1..Len(tables[1].columns) : ~tables[1].columns[c].isForeign
    /\ Cardinality(HeaderPlaces(ErdLines(erd), toUpperCase(tables[1].name))) = 1
    /\ ErdLines(erd)[Len(ErdLines(erd))] \in BothArrows([table |-> tables[2], col |-> C_fk])

----------------------------------------------------------------------------
(* The renderer on names that hold the characters safeLabel is about *)

L_plain   == <<"f","k","_","1">>
L_dashes  == <<"a","-","-","b">>
L_arrow   == <<"a","-",">","b">>
L_split   == <<"a","-","|","-","b">>
L_marks   == <<"<","x",">","{","y","}","[","z","]">>
L_bar     == <<"a","|","b">>
L_angle   == <<"x","<","y">>
MANY_ARROW_ONE == <<"m","a","n","y","-",">","o","n","e">>

LabelRelPool ==
    { Rel(L_plain,  N_t, <<"f">>, N_u, <<"i">>, MANY_TO_ONE),
      Rel(L_dashes, N_t, <<"f">>, N_u, <<"i">>, ONE_TO_ONE),
      Rel(L_arrow,  N_t, <<"f">>, N_u, <<"i">>, MANY_TO_ONE),
      Rel(L_split,  N_t, <<"f">>, N_u, <<"i">>, ONE_TO_ONE),
      Rel(L_marks,  N_t, <<"f">>, N_u, <<"i">>, MANY_TO_ONE),
      Rel(<<>>,     N_t, <<"f">>, N_u, <<"i">>, MANY_ARROW_ONE),
      Rel(<<>>,     N_t, <<"f">>, N_u, <<"i">>, <<>>) }

LabelTablePool ==
    { Table(N_u, <<C_pk>>),
      Table(N_t, <<C_pk, C_fk>>),
      Table(N_t, <<Column(L_bar, T_int, FALSE, TRUE, FALSE, Ref(N_u, L_angle))>>) }

InitLabel ==
    /\ pc = "render"
    /\ tables \in SeqsUpTo(LabelTablePool, MaxTables)
    /\ relations \in SeqsUpTo(LabelRelPool, MaxRels)
    /\ sql = <<>> /\ dialect = "none" /\ content = <<>>
    /\ files = <<>> /\ fi = 1 /\ erd = <<>>
    /\ src = <<>> /\ hist = <<>>

SpecLabel == InitLabel /\ [][GenerateMermaidERD]_vars

----------------------------------------------------------------------------
\* C17: every relation line, of an explicit relation or derived from a foreign key,
\* carries a sanitized label: it holds none of { } [ ] | < > and no "--"; the label of
\* an explicit relation is the sanitized name, else the sanitized type, else "rel".
LABEL_MARK == <<" ",":"," ">>

LabelOf(line) ==
    LET at == Least({i \in 1..Len(line) : OccursAt(line, LABEL_MARK, i)})
    IN SubSeq(line, at + Len(LABEL_MARK), Len(line))

StructuralChars == {"{", "}", "[", "]", "|", "<", ">"}

Clean(label) ==
    /\ \A i \in 1..Len(label) : label[i] \notin StructuralChars
    /\ ~includes(label, <<"-","-">>)

LabelSource(rel) ==
    IF rel.name # <<>> THEN rel.name ELSE IF rel.type # <<>> THEN rel.type ELSE REL

\* the four replacements one after the other, each over the whole text
Replaced(s) ==
    replaceChar(replaceChar(replacePair(removeChars(replacePair(s, <<"-","-">>, <<"EMDASH">>),
                                                    {"{", "}", "[", "]", "|"}),
                                        <<"-",">">>, <<"RARROW">>),
                            "<", "LSAQUO"),
                ">", "RSAQUO")

C17_LabelsSanitized ==
    (Rendered /\ Len(tables) > 0) =>
        LET lines == ErdLines(erd)
        IN /\ \A i \in 1..Len(lines) : IsRelationLine(lines[i]) => Clean(LabelOf(lines[i]))
           /\ \A k \in 1..Len(relations) :
                 LabelOf(ExplicitLine(lines, k)) = Replaced(LabelSource(relations[k]))

\* what the code does give: the explicit labels are the replaced name, type or "rel",
\* and hold none of the seven characters
C17_ExplicitLabelsReplaced ==
    (Rendered /\ Len(tables) > 0) =>
        LET lines == ErdLines(erd)
        IN \A k \in 1..Len(relations) :
              /\ LabelOf(ExplicitLine(lines, k)) = Replaced(LabelSource(relations[k]))
              /\ \A i \in 1..Len(LabelOf(ExplicitLine(lines, k))) :
                    LabelOf(ExplicitLine(lines, k))[i] \notin StructuralChars

----------------------------------------------------------------------------
\* C18: on the Postgres path an ALTER TABLE ... ADD CONSTRAINT ... FOREIGN KEY
\* (c1, ..., cn) REFERENCES parent(p1, ..., pn) on a registered table leaves every
\* listed column ci that the table has foreign, with references {parent, pi}: the
\* lists are paired by index, beyond their first column.
FirstTableNamed(tbls, name) ==
    Least({t \in 1..Len(tbls) : tbls[t].name = toLowerCase(name)})

\* the column is named by this add only, so that nothing later rewrites it
NamedOnce(desc, j, a, k) ==
    \A j2 \in 1..Len(desc) :
        desc[j2].k = "alter" =>
            \A a2 \in 1..Len(desc[j2].adds) : \A k2 \in 1..Len(desc[j2].adds[a2].cols) :
                (SameName(desc[j2].adds[a2].cols[k2], desc[j].adds[a].cols[k])
                    /\ SameName(desc[j2].table, desc[j].table))
                => <<j2, a2, k2>> = <<j, a, k>>

PgAlterPairsAll(i) ==
    LET desc  == files[i].desc
        after == hist.log[i].after
    IN \A j \in 1..Len(desc) :
          (desc[j].k = "alter" /\ desc[j].quote = <<>>
              /\ RegisteredAt(hist.log[i].before, desc, j))
          => LET cols == after[FirstTableNamed(after, desc[j].table)].columns
             IN \A a \in 1..Len(desc[j].adds) :
                   \A k \in 1..Len(desc[j].adds[a].cols) :
                      \A c \in 1..Len(cols) :
                         (cols[c].name = toLowerCase(desc[j].adds[a].cols[k])
                             /\ k <= Len(desc[j].adds[a].refcols)
                             /\ NamedOnce(desc, j, a, k))
                         => /\ cols[c].isForeign
                            /\ cols[c].references
                                  = Ref(toLowerCase(desc[j].adds[a].reftable),
                                        toLowerCase(desc[j].adds[a].refcols[k]))

C18_PostgresAlterPairsEveryColumn ==
    \A i \in 1..Len(hist.log) :
        (~hist.log[i].failed /\ ~hist.log[i].aborted
            /\ detectDatabase(files[i].text) = "Postgres")
        => PgAlterPairsAll(i)

\* what the code gives: the first column of the child list paired with the first of
\* the parent list
PgAlterPairsFirst(i) ==
    LET desc  == files[i].desc
        after == hist.log[i].after
    IN \A j \in 1..Len(desc) :
          (desc[j].k = "alter" /\ desc[j].quote = <<>>
              /\ RegisteredAt(hist.log[i].before, desc, j))
          => LET cols == after[FirstTableNamed(after, desc[j].table)].columns
             IN \A a \in 1..Len(desc[j].adds) : \A c \in 1..Len(cols) :
                   (cols[c].name = toLowerCase(desc[j].adds[a].cols[1])
                       /\ NamedOnce(desc, j, a, 1))
                   => /\ cols[c].isForeign
                      /\ cols[c].references
                            = Ref(toLowerCase(desc[j].adds[a].reftable),
                                  toLowerCase(desc[j].adds[a].refcols[1]))

C18_PostgresAlterPairsFirstColumn ==
    \A i \in 1..Len(hist.log) :
        (~hist.log[i].failed /\ ~hist.log[i].aborted
            /\ detectDatabase(files[i].text) = "Postgres")
        => PgAlterPairsFirst(i)

====
